---- MODULE Spec2Model ----
(***************************************************************************)
(* Verification model of the cluster recommender engine                    *)
(* (banzaicloud/cluster-recommender, package recommender).                 *)
(*                                                                         *)
(* Numbers.  The Go code computes on float64.  Every quantity of this      *)
(* model is a small integer, a quarter of a small integer, or a quotient   *)
(* of two small integers that is only compared or rounded; on such values  *)
(* IEEE double arithmetic agrees with exact rational arithmetic, so the    *)
(* model computes with integers: a comparison x/y < u/v is cross           *)
(* multiplied, Ceil(x/y) is CeilDiv(x, y).  Zone prices of a product are   *)
(* multiples of the number of its zone prices, so that avg() is integral.  *)
(* Division by a float zero yields +Inf, -Inf or NaN and is modelled as    *)
(* such where the code can reach it (scale-out with a zero delta).         *)
(***************************************************************************)
EXTENDS Integers, Sequences, FiniteSets, TLC

\* ------------------------------------------------------------------------
\* Bounds of the model
\* ------------------------------------------------------------------------

\* largest maxNodes of a standard request
MaxNodesBound == 3

\* largest sumNodes of a pool of an actual layout
MaxLayoutNodes == 2

\* ------------------------------------------------------------------------
\* Constants of the program
\* ------------------------------------------------------------------------

regular == "regular"

ondemand == "ondemand"

spot == "spot"

Memory == "memory"

Cpu == "cpu"

\* RecommendClusterScaleOut: MaxNodes: math.MaxInt8
MaxInt8 == 127

\* int(f) of a float that is +Inf, -Inf or NaN is implementation dependent;
\* only the sign of the result and whether it exceeds 100 are observed.
\* IntMin / IntMax stand for the smallest / largest int.
IntMin == -2147483647

IntMax == 2147483647

\* ------------------------------------------------------------------------
\* Generic helpers
\* ------------------------------------------------------------------------

Min2(a, b) == IF a < b THEN a ELSE b

\* math.Ceil(x / y) for y > 0
CeilDiv(x, y) == IF x >= 0 THEN (x + y - 1) \div y ELSE -((-x) \div y)

\* int(x / y) for y > 0: truncation toward zero
TruncDiv(x, y) == IF x >= 0 THEN x \div y ELSE -((-x) \div y)

RECURSIVE SumSeq(_)
SumSeq(s) == IF s = <<>> THEN 0 ELSE Head(s) + SumSeq(Tail(s))

\* the slice with the elements f[1], ..., f[n], built by append
RECURSIVE TakeSeq(_, _)
TakeSeq(f, n) == IF n = 0 THEN <<>> ELSE Append(TakeSeq(f, n - 1), f[n])

SeqOf(f) == TakeSeq(f, Len(f))

\* the element of a one-element set
TheOne(S) == CHOOSE r \in S : TRUE

SeqRange(s) == {s[i] : i \in 1..Len(s)}

\* the Go loop "for _, x := range s { if P(x) { out = append(out, x) } }"
RECURSIVE FilterSeq(_, _)
FilterSeq(s, keep) ==
  IF s = <<>> THEN <<>>
  ELSE IF keep[Head(s)] THEN <<Head(s)>> \o FilterSeq(Tail(s), keep)
       ELSE FilterSeq(Tail(s), keep)

contains(slice, s) == \E i \in 1..Len(slice) : slice[i] = s

\* ------------------------------------------------------------------------
\* The catalogue (cloud-info service), read through CloudInfoSource
\* ------------------------------------------------------------------------

ZonePrice(z, p) == [Zone |-> z, Price |-> p]

\* models.ProductDetails of the catalogue for the (provider, service, region)
Products ==
  << [Type |-> "a", OnDemandPrice |-> 10, Cpus |-> 2, Mem |-> 4,
      SpotPrice |-> <<ZonePrice("z1", 4), ZonePrice("z2", 8)>>,
      Burst |-> FALSE, CurrentGen |-> TRUE, NtwPerf |-> "high"],
     [Type |-> "b", OnDemandPrice |-> 16, Cpus |-> 4, Mem |-> 4,
      SpotPrice |-> <<ZonePrice("z1", 8), ZonePrice("z2", 8)>>,
      Burst |-> TRUE, CurrentGen |-> TRUE, NtwPerf |-> "low"],
     [Type |-> "c", OnDemandPrice |-> 24, Cpus |-> 4, Mem |-> 8,
      SpotPrice |-> <<ZonePrice("z1", 12), ZonePrice("z2", 12)>>,
      Burst |-> FALSE, CurrentGen |-> FALSE, NtwPerf |-> "high"],
     [Type |-> "d", OnDemandPrice |-> 20, Cpus |-> 8, Mem |-> 8,
      SpotPrice |-> <<>>,
      Burst |-> FALSE, CurrentGen |-> TRUE, NtwPerf |-> "high"] >>

\* CloudInfoSource.GetZones
GetZones == <<"z1", "z2">>

\* CloudInfoSource.GetProductDetails
GetProductDetails == Products

RECURSIVE SortedSeqOfSet(_)
SortedSeqOfSet(S) ==
  IF S = {} THEN <<>>
  ELSE LET m == CHOOSE x \in S : \A y \in S : x <= y
       IN <<m>> \o SortedSeqOfSet(S \ {m})

\* CloudInfoSource.GetAttributeValues: the value domain of an attribute
GetAttributeValues(attr) ==
  SortedSeqOfSet({ IF attr = Cpu THEN Products[i].Cpus ELSE Products[i].Mem
                   : i \in 1..Len(Products) })

\* ------------------------------------------------------------------------
\* VirtualMachine, NodePool
\* ------------------------------------------------------------------------

\* the zero value of VirtualMachine
ZeroVm ==
  [Type |-> "", AvgPrice |-> 0, OnDemandPrice |-> 0, Cpus |-> 0, Mem |-> 0,
   Burst |-> FALSE, NetworkPerf |-> "", CurrentGen |-> FALSE]

\* the zero value of NodePool
ZeroNodePool == [VmType |-> ZeroVm, SumNodes |-> 0, VmClass |-> ""]

NodePool(vm, n, class) == [VmType |-> vm, SumNodes |-> n, VmClass |-> class]

getAttrValue(v, attr) ==
  CASE attr = Cpu -> v.Cpus
    [] attr = Memory -> v.Mem
    [] OTHER -> 0

getVmClass(n) ==
  CASE n.VmClass \in {regular, spot} -> n.VmClass
    [] n.VmClass = ondemand -> regular
    [] OTHER -> spot

getSum(n, attr) == n.SumNodes * getAttrValue(n.VmType, attr)

\* variant: the value of the pool as it is, without the node to add
getNextSumOfCurrent(n, attr) == getSum(n, attr)

getNextSum(n, attr) == getSum(n, attr) + getAttrValue(n.VmType, attr)

poolPrice(n) ==
  CASE n.VmClass = regular -> n.SumNodes * n.VmType.OnDemandPrice
    [] n.VmClass = spot -> n.SumNodes * n.VmType.AvgPrice
    [] OTHER -> 0

\* req.sum(attr)
sum(req, attr) ==
  CASE attr = Cpu -> req.SumCpu
    [] attr = Memory -> req.SumMem
    [] OTHER -> 0

\* ------------------------------------------------------------------------
\* Filters
\* ------------------------------------------------------------------------

\* the float comparison  xn/xd < yn/yd  for xd > 0, where yd may be zero:
\* yn/0 is +Inf (yn > 0), -Inf (yn < 0) or NaN (yn = 0), and every
\* comparison with NaN is false
RatioLess(xn, xd, yn, yd) ==
  CASE yd > 0 -> xn * yd < yn * xd
    [] yd < 0 -> xn * yd > yn * xd
    [] OTHER -> yn > 0

\* variant: the comparison of the two ratios the wrong way round
minMemRatioFilterFlipped(vm, req) ==
  ~ RatioLess(req.SumMem, req.SumCpu, vm.Mem, vm.Cpus)

minMemRatioFilter(vm, req) ==
  ~ RatioLess(vm.Mem, vm.Cpus, req.SumMem, req.SumCpu)

minCpuRatioFilter(vm, req) ==
  ~ RatioLess(vm.Cpus, vm.Mem, req.SumCpu, req.SumMem)

\* AllowBurst is a *bool: "nil", "true" or "false"
burstFilter(vm, req) ==
  IF req.AllowBurst = "nil" \/ req.AllowBurst = "true" THEN TRUE
  ELSE ~ vm.Burst

ntwPerformanceFilter(vm, req) ==
  IF req.NetworkPerf = "nil" THEN TRUE
  ELSE vm.NetworkPerf = req.NetworkPerf

\* variant: the negation of the blacklist test forgotten
excludesFilterInverted(vm, req) ==
  IF Len(req.Excludes) = 0 THEN TRUE
  ELSE contains(req.Excludes, vm.Type)

excludesFilter(vm, req) ==
  IF Len(req.Excludes) = 0 THEN TRUE
  ELSE ~ contains(req.Excludes, vm.Type)

includesFilter(vm, req) ==
  IF Len(req.Includes) = 0 THEN TRUE
  ELSE contains(req.Includes, vm.Type)

\* passes iff vm.currentGen, unless allowOlderGen is explicitly true
currentGenFilter(vm, req) ==
  IF req.AllowOlderGen = "true" THEN TRUE
  ELSE vm.CurrentGen

\* the filters are named; ApplyFilter calls the named one
ApplyFilter(f, vm, req) ==
  CASE f = "includesFilter" -> includesFilter(vm, req)
    [] f = "excludesFilter" -> excludesFilter(vm, req)
    [] f = "currentGenFilter" -> currentGenFilter(vm, req)
    [] f = "burstFilter" -> burstFilter(vm, req)
    [] f = "ntwPerformanceFilter" -> ntwPerformanceFilter(vm, req)
    [] f = "minMemRatioFilter" -> minMemRatioFilter(vm, req)
    [] f = "minCpuRatioFilter" -> minCpuRatioFilter(vm, req)

\* variant: amazon given the filters of google
filtersForAttrNoAmazon(attr, provider) ==
  <<"includesFilter", "excludesFilter">>
  \o (IF provider \in {"amazon", "google"} THEN <<"ntwPerformanceFilter">>
      ELSE <<>>)
  \o (IF attr = Cpu THEN <<"minMemRatioFilter">> ELSE <<"minCpuRatioFilter">>)

filtersForAttr(attr, provider) ==
  LET generic == <<"includesFilter", "excludesFilter">>
      prov == CASE provider = "amazon" ->
                     <<"currentGenFilter", "burstFilter", "ntwPerformanceFilter">>
                [] provider = "google" -> <<"ntwPerformanceFilter">>
                [] OTHER -> <<>>
      byAttr == IF attr = Cpu THEN <<"minMemRatioFilter">>
                ELSE <<"minCpuRatioFilter">>
  IN generic \o prov \o byAttr

filtersApply(vm, filters, req) ==
  \A i \in 1..Len(filters) : ApplyFilter(filters[i], vm, req)

filterSpots(vms) ==
  FilterSeq(vms, [vm \in SeqRange(vms) |-> vm.AvgPrice # 0])

\* ------------------------------------------------------------------------
\* Attribute values and virtual machines of the catalogue
\* ------------------------------------------------------------------------

\* insertion of x into an ascending sequence, after its equals
RECURSIVE InsertAsc(_, _)
InsertAsc(s, x) ==
  IF s = <<>> THEN <<x>>
  ELSE IF x < Head(s) THEN <<x>> \o s
       ELSE <<Head(s)>> \o InsertAsc(Tail(s), x)

\* sort.Float64s
RECURSIVE SortAsc(_)
SortAsc(s) ==
  IF s = <<>> THEN <<>>
  ELSE InsertAsc(SortAsc(SubSeq(s, 1, Len(s) - 1)), s[Len(s)])

\* findValuesBetween without its "sort.Float64s(attrValues)"
findValuesBetweenUnsorted(attrValues, minN, minD, maxN, maxD) ==
  IF Len(attrValues) = 0
  THEN [err |-> "no attribute values provided", values |-> <<>>]
  ELSE IF minN * maxD > maxN * minD
  THEN [err |-> "min value cannot be larger than the max value", values |-> <<>>]
  ELSE LET sorted == attrValues
           last == sorted[Len(sorted)]
       IN IF maxN < sorted[1] * maxD
          THEN [err |-> "", values |-> <<sorted[1]>>]
          ELSE IF minN > last * minD
          THEN [err |-> "", values |-> <<last>>]
          ELSE [err |-> "",
                values |-> FilterSeq(sorted,
                  [v \in SeqRange(sorted) |-> v * minD >= minN /\ v * maxD <= maxN])]

\* min is the quotient minN / minD and max the quotient maxN / maxD
\* (minD > 0, maxD > 0)
findValuesBetween(attrValues, minN, minD, maxN, maxD) ==
  IF Len(attrValues) = 0
  THEN [err |-> "no attribute values provided", values |-> <<>>]
  ELSE IF minN * maxD > maxN * minD
  THEN [err |-> "min value cannot be larger than the max value", values |-> <<>>]
  ELSE LET sorted == SortAsc(attrValues)
           last == sorted[Len(sorted)]
       IN IF maxN < sorted[1] * maxD
          THEN [err |-> "", values |-> <<sorted[1]>>]
          ELSE IF minN > last * minD
          THEN [err |-> "", values |-> <<last>>]
          ELSE [err |-> "",
                values |-> FilterSeq(sorted,
                  [v \in SeqRange(sorted) |-> v * minD >= minN /\ v * maxD <= maxN])]

\* maxValuePerVm is sum / MinNodes, minValuePerVm is sum / MaxNodes
recommendAttrValues(attr, req) ==
  findValuesBetween(GetAttributeValues(attr),
                    sum(req, attr), req.MaxNodes,
                    sum(req, attr), req.MinNodes)

\* how many elements of the sequence equal x
RECURSIVE CountEq(_, _)
CountEq(s, x) ==
  IF s = <<>> THEN 0
  ELSE (IF Head(s) = x THEN 1 ELSE 0) + CountEq(Tail(s), x)

RECURSIVE MatchedPriceSum(_, _)
MatchedPriceSum(prices, recZones) ==
  IF prices = <<>> THEN 0
  ELSE Head(prices).Price * CountEq(recZones, Head(prices).Zone)
       + MatchedPriceSum(Tail(prices), recZones)

avg(prices, recZones) ==
  IF Len(prices) = 0 THEN 0
  ELSE MatchedPriceSum(prices, recZones) \div Len(prices)

VirtualMachine(p, zones) ==
  [Type |-> p.Type, AvgPrice |-> avg(p.SpotPrice, zones),
   OnDemandPrice |-> p.OnDemandPrice, Cpus |-> p.Cpus, Mem |-> p.Mem,
   Burst |-> p.Burst, NetworkPerf |-> p.NtwPerf, CurrentGen |-> p.CurrentGen]

RECURSIVE VmsOfProducts(_, _, _, _)
VmsOfProducts(ps, zones, attr, values) ==
  IF ps = <<>> THEN <<>>
  ELSE LET p == Head(ps)
           included ==
             IF Len(values) > 0
             THEN \E i \in 1..Len(values) :
                    IF attr = Cpu THEN p.Cpus = values[i] ELSE p.Mem = values[i]
             ELSE TRUE
       IN (IF included THEN <<VirtualMachine(p, zones)>> ELSE <<>>)
          \o VmsOfProducts(Tail(ps), zones, attr, values)

findVmsWithAttrValues(zones, attr, values) ==
  LET zs == IF Len(zones) = 0 THEN GetZones ELSE zones
  IN VmsOfProducts(GetProductDetails, zs, attr, values)

\* ------------------------------------------------------------------------
\* Layout of the running cluster (scale-out)
\* ------------------------------------------------------------------------

\* a []NodePoolDesc or []NodePool that may be nil
NilLayout == [nil |-> TRUE, nps |-> <<>>]

Layout(s) == [nil |-> FALSE, nps |-> s]

transformLayout(layoutDesc, vms) ==
  IF layoutDesc.nil THEN NilLayout
  ELSE Layout(SeqOf([i \in 1..Len(layoutDesc.nps) |->
         LET npd == layoutDesc.nps[i]
             hits == {j \in 1..Len(vms) : vms[j].Type = npd.InstanceType}
         IN IF hits = {} THEN ZeroNodePool
            ELSE LET j == CHOOSE k \in hits : \A l \in hits : k <= l
                 IN NodePool(vms[j], npd.SumNodes, getVmClass(npd))]))

\* int(f) for f = +Inf ("+inf"), -Inf ("-inf") or NaN ("nan"): the result
\* depends on the build.  amd64 yields the smallest int for all three;
\* arm64 saturates and converts NaN to 0.
FloatToInt(f, arch) ==
  CASE arch = "amd64" -> IntMin
    [] f = "+inf" -> IntMax
    [] f = "-inf" -> IntMin
    [] OTHER -> 0

\* The inputs <<desired, desiredOdPct, sumCurrentOd, scaleout>>, among those
\* with desired 8 or 16, a percentage of 0, 21, 50 or 100, sumCurrentOd
\* and scaleout up to 64 and scaleoutOd >= 0, for which the float64 value
\* of (desired * desiredOdPct / 100 - sumCurrentOd) / scaleout * 100 is
\* just below the whole number that the exact value is, so that int()
\* yields one less: 1.68 / 6 * 100 is 27.999999999999996.  (A negative
\* value is replaced by 0 whatever its rounding.)
Float64RoundsBelow ==
  {<<8, 21, 0, 3>>, <<8, 21, 0, 6>>, <<8, 21, 0, 12>>,
   <<8, 21, 0, 24>>, <<8, 21, 1, 17>>, <<8, 21, 1, 34>>,
   <<16, 21, 0, 3>>, <<16, 21, 0, 6>>, <<16, 21, 0, 12>>,
   <<16, 21, 0, 24>>, <<16, 21, 0, 48>>, <<16, 21, 2, 17>>,
   <<16, 21, 2, 34>>, <<16, 21, 3, 1>>, <<16, 21, 3, 2>>,
   <<16, 21, 3, 3>>, <<16, 21, 3, 4>>, <<16, 21, 3, 6>>,
   <<16, 21, 3, 9>>, <<16, 21, 3, 12>>, <<16, 21, 3, 18>>,
   <<16, 21, 3, 36>>}

\* int(scaleoutOd / scaleout * 100) with scaleoutOd = desired * desiredOdPct
\* / 100 - sumCurrentOd and scaleout >= 0
scaleoutPct(desired, desiredOdPct, sumCurrentOd, scaleout, arch) ==
  LET odNum == desired * desiredOdPct - 100 * sumCurrentOd
  IN IF scaleout > 0
     THEN IF <<desired, desiredOdPct, sumCurrentOd, scaleout>>
               \in Float64RoundsBelow
          THEN TruncDiv(odNum, scaleout) - 1
          ELSE TruncDiv(odNum, scaleout)
     ELSE FloatToInt(CASE odNum > 0 -> "+inf" [] odNum < 0 -> "-inf"
                       [] OTHER -> "nan", arch)

RECURSIVE LayoutSum(_, _, _)
LayoutSum(nps, attr, onlyRegular) ==
  IF nps = <<>> THEN 0
  ELSE (IF onlyRegular /\ Head(nps).VmClass # regular THEN 0
        ELSE getSum(Head(nps), attr))
       + LayoutSum(Tail(nps), attr, onlyRegular)

computeScaleoutResources(layout, attr, desiredCpu, desiredMem, desiredOdPct, arch) ==
  LET currentCpuTotal == LayoutSum(layout, Cpu, FALSE)
      currentMemTotal == LayoutSum(layout, Memory, FALSE)
      sumCurrentOdCpu == LayoutSum(layout, Cpu, TRUE)
      sumCurrentOdMem == LayoutSum(layout, Memory, TRUE)
      scaleoutCpu == desiredCpu - currentCpuTotal
      scaleoutMem == desiredMem - currentMemTotal
      failed(msg) == [SumCpu |-> 0, SumMem |-> 0, OnDemandPct |-> 0, err |-> msg]
      scaleoutOdPct ==
        IF attr = Cpu
        THEN scaleoutPct(desiredCpu, desiredOdPct, sumCurrentOdCpu,
                         scaleoutCpu, arch)
        ELSE scaleoutPct(desiredMem, desiredOdPct, sumCurrentOdMem,
                         scaleoutMem, arch)
  IN IF scaleoutCpu < 0 /\ scaleoutMem < 0
     THEN [SumCpu |-> scaleoutCpu, SumMem |-> scaleoutMem, OnDemandPct |-> 0,
           err |-> ""]
     ELSE IF attr = Cpu /\ scaleoutCpu < 0
     THEN failed("there's already enough CPU resources in the cluster")
     ELSE IF attr = Memory /\ scaleoutMem < 0
     THEN failed("there's already enough memory resources in the cluster")
     ELSE IF scaleoutOdPct > 100
     THEN failed("couldn't scale out cluster with the provided parameters")
     ELSE [SumCpu |-> scaleoutCpu, SumMem |-> scaleoutMem,
           OnDemandPct |-> IF scaleoutOdPct < 0 THEN 0 ELSE scaleoutOdPct,
           err |-> ""]

\* ------------------------------------------------------------------------
\* Candidate virtual machines of an anchor attribute
\* ------------------------------------------------------------------------

\* the vms of the layout pools of a class, in layout order
RECURSIVE LayoutVms(_, _, _)
LayoutVms(nps, filteredVms, wantRegular) ==
  IF nps = <<>> THEN <<>>
  ELSE LET np == Head(nps)
       IN (IF (np.VmClass = regular) = wantRegular
           THEN FilterSeq(filteredVms,
                  [vm \in SeqRange(filteredVms) |-> np.VmType.Type = vm.Type])
           ELSE <<>>)
          \o LayoutVms(Tail(nps), filteredVms, wantRegular)

RecommendVms(vms, attr, filters, req, layout) ==
  LET filteredVms ==
        FilterSeq(vms, [vm \in SeqRange(vms) |-> filtersApply(vm, filters, req)])
      odVms == IF layout.nil THEN filteredVms
               ELSE LayoutVms(layout.nps, filteredVms, TRUE)
      spotVms == IF layout.nil THEN filteredVms
                 ELSE LayoutVms(layout.nps, filteredVms, FALSE)
  IN IF Len(filteredVms) = 0 THEN [odVms |-> <<>>, spotVms |-> <<>>]
     ELSE IF req.OnDemandPct < 100
     THEN IF Len(filterSpots(spotVms)) = 0
          THEN [odVms |-> <<>>, spotVms |-> <<>>]
          ELSE [odVms |-> odVms, spotVms |-> filterSpots(spotVms)]
     ELSE [odVms |-> odVms, spotVms |-> spotVms]

\* ------------------------------------------------------------------------
\* Sorting.  sort.Sort on at most 6 elements is the insertion sort
\*   for i := 1; i < n; i++ { for j := i; j > 0 && Less(j, j-1); j-- { Swap(j, j-1) } }
\* ------------------------------------------------------------------------

\* ByAvgPricePerCpu.Less / ByAvgPricePerMemory.Less: AvgPrice / value
VmLess(attr, a, b) ==
  a.AvgPrice * getAttrValue(b, attr) < b.AvgPrice * getAttrValue(a, attr)

RECURSIVE InsertVm(_, _, _)
InsertVm(attr, s, x) ==
  IF s = <<>> THEN <<x>>
  ELSE IF VmLess(attr, x, s[Len(s)])
       THEN InsertVm(attr, SubSeq(s, 1, Len(s) - 1), x) \o <<s[Len(s)]>>
       ELSE s \o <<x>>

RECURSIVE sortByAttrValue(_, _)
sortByAttrValue(attr, vms) ==
  IF vms = <<>> THEN <<>>
  ELSE InsertVm(attr, sortByAttrValue(attr, SubSeq(vms, 1, Len(vms) - 1)),
                vms[Len(vms)])

RECURSIVE InsertNodePool(_, _)
InsertNodePool(s, x) ==
  IF s = <<>> THEN <<x>>
  ELSE IF x.SumNodes > s[Len(s)].SumNodes
       THEN InsertNodePool(SubSeq(s, 1, Len(s) - 1), x) \o <<s[Len(s)]>>
       ELSE s \o <<x>>

\* sort.Sort(ByNonZeroNodePools(layout)): descending by SumNodes
RECURSIVE ByNonZeroNodePools(_)
ByNonZeroNodePools(nps) ==
  IF nps = <<>> THEN <<>>
  ELSE InsertNodePool(ByNonZeroNodePools(SubSeq(nps, 1, Len(nps) - 1)),
                      nps[Len(nps)])

\* ------------------------------------------------------------------------
\* Diversification numbers
\* ------------------------------------------------------------------------

avgSpotNodeCount(minNodes, maxNodes, odNodes) ==
  LET spotCount == CeilDiv(minNodes - odNodes + maxNodes - odNodes, 2)
  IN IF spotCount < 0 THEN 0 ELSE spotCount

findN(a) ==
  CASE a <= 4 -> a
    [] a <= 8 -> 4
    [] a <= 15 -> 5
    [] a <= 24 -> 6
    [] a <= 35 -> 7
    [] OTHER -> 8

\* variant: no widening of the candidate pool by the factor 1.5
findMNarrow(N, spotVms) ==
  IF N > 0 THEN Min2(N, Len(spotVms))
  ELSE Min2(3, Len(spotVms))

findM(N, spotVms) ==
  IF N > 0 THEN Min2(CeilDiv(3 * N, 2), Len(spotVms))
  ELSE Min2(3, Len(spotVms))

findNWithLayout(nonZeroNps, vmOptions) ==
  IF nonZeroNps = 0 THEN 1
  ELSE IF nonZeroNps < vmOptions THEN nonZeroNps
  ELSE vmOptions

\* ------------------------------------------------------------------------
\* The fill loop.  idx and minIndex count from 0 as in the code; the pool
\* with index i is nps[i + 1].  A run-time panic of the Go code (index out
\* of range, integer divide by zero) ends the run with panic # "".
\* ------------------------------------------------------------------------

\* minIndex of the first N pools: the first pool with the smallest value
FillMinIndex(N, nps, attr) ==
  CHOOSE i \in 0..(N - 1) :
    /\ \A j \in 0..(N - 1) : getSum(nps[i + 1], attr) <= getSum(nps[j + 1], attr)
    /\ \A j \in 0..(i - 1) : getSum(nps[j + 1], attr) > getSum(nps[i + 1], attr)

\* variant: the value already in the pools left out of the target
FillStartFromZero(sumSpotValue, N, nps, attr) ==
  IF N > Len(nps)
  THEN [nps |-> nps, N |-> N, attr |-> attr, sumValueInPools |-> 0,
        desiredSpotValue |-> 0, idx |-> 0, minIndex |-> 0,
        panic |-> "index out of range"]
  ELSE LET inPools == SumSeq(SeqOf([i \in 1..N |-> getSum(nps[i], attr)]))
           minIndex == IF N <= 0 THEN 0 ELSE FillMinIndex(N, nps, attr)
       IN [nps |-> nps, N |-> N, attr |-> attr, sumValueInPools |-> inPools,
           desiredSpotValue |-> sumSpotValue, idx |-> minIndex,
           minIndex |-> minIndex, panic |-> ""]

\* fillSpotNodePools up to the head of its second loop
FillStart(sumSpotValue, N, nps, attr) ==
  IF N > Len(nps)
  THEN [nps |-> nps, N |-> N, attr |-> attr, sumValueInPools |-> 0,
        desiredSpotValue |-> 0, idx |-> 0, minIndex |-> 0,
        panic |-> "index out of range"]
  ELSE LET inPools == SumSeq(SeqOf([i \in 1..N |-> getSum(nps[i], attr)]))
           minIndex == IF N <= 0 THEN 0 ELSE FillMinIndex(N, nps, attr)
       IN [nps |-> nps, N |-> N, attr |-> attr, sumValueInPools |-> inPools,
           desiredSpotValue |-> inPools + sumSpotValue, idx |-> minIndex,
           minIndex |-> minIndex, panic |-> ""]

\* variant: the loop goes on while the target is not exceeded
FillContinuesInclusive(st) ==
  st.panic = "" /\ st.sumValueInPools <= st.desiredSpotValue

\* the loop condition of the second loop
FillContinues(st) == st.panic = "" /\ st.sumValueInPools < st.desiredSpotValue

\* variant: a node is added to every pool from index k on
AddNodeFrom(nps, k, attr) ==
  SeqOf([i \in 1..Len(nps) |->
           IF i >= k + 1 THEN NodePool(nps[i].VmType, nps[i].SumNodes + 1,
                                       nps[i].VmClass)
           ELSE nps[i]])

\* nps[k].SumNodes += 1
AddNode(nps, k, attr) ==
  SeqOf([i \in 1..Len(nps) |->
           IF i = k + 1 THEN NodePool(nps[i].VmType, nps[i].SumNodes + 1,
                                      nps[i].VmClass)
           ELSE nps[i]])

\* one iteration of the second loop
FillIter(st) ==
  IF st.N = 0 THEN [st EXCEPT !.panic = "integer divide by zero"]
  ELSE LET nodePoolIdx == st.idx % st.N
           value == getAttrValue(st.nps[nodePoolIdx + 1].VmType, st.attr)
       IN IF nodePoolIdx = st.minIndex
          THEN [st EXCEPT !.nps = AddNode(@, nodePoolIdx, st.attr),
                          !.sumValueInPools = @ + value,
                          !.idx = @ + 1]
          ELSE IF getNextSum(st.nps[nodePoolIdx + 1], st.attr)
                    > getSum(st.nps[st.minIndex + 1], st.attr)
          THEN [st EXCEPT !.idx = @ + 1]
          ELSE [st EXCEPT !.nps = AddNode(@, nodePoolIdx, st.attr),
                          !.sumValueInPools = @ + value]

RECURSIVE FillRun(_)
FillRun(st) == IF FillContinues(st) THEN FillRun(FillIter(st)) ELSE st

fillSpotNodePools(sumSpotValue, N, nps, attr) ==
  FillRun(FillStart(sumSpotValue, N, nps, attr))

\* ------------------------------------------------------------------------
\* The pool planner
\* ------------------------------------------------------------------------

\* the cheapest on-demand vm by price per attribute value: the first minimum
\* variant: a later candidate replaces the selected one at the same price
\* per attribute value
RECURSIVE SelectOnDemandLast(_, _, _)
SelectOnDemandLast(attr, vms, selected) ==
  IF vms = <<>> THEN selected
  ELSE LET vm == Head(vms)
       IN IF vm.OnDemandPrice * getAttrValue(selected, attr)
               <= selected.OnDemandPrice * getAttrValue(vm, attr)
          THEN SelectOnDemandLast(attr, Tail(vms), vm)
          ELSE SelectOnDemandLast(attr, Tail(vms), selected)

RECURSIVE SelectOnDemand(_, _, _)
SelectOnDemand(attr, vms, selected) ==
  IF vms = <<>> THEN selected
  ELSE LET vm == Head(vms)
       IN IF vm.OnDemandPrice * getAttrValue(selected, attr)
               < selected.OnDemandPrice * getAttrValue(vm, attr)
          THEN SelectOnDemand(attr, Tail(vms), vm)
          ELSE SelectOnDemand(attr, Tail(vms), selected)

\* variant: the spot share taken for the on-demand share
OdNodesToAddSpotShare(attr, odVms, req) ==
  IF Len(odVms) > 0
  THEN CeilDiv(sum(req, attr) * (100 - req.OnDemandPct),
               100 * getAttrValue(SelectOnDemand(attr, odVms, odVms[1]), attr))
  ELSE 0

\* odNodesToAdd = int(math.Ceil(sumOnDemandValue / value)) with
\* sumOnDemandValue = req.sum(attr) * OnDemandPct / 100
OdNodesToAdd(attr, odVms, req) ==
  IF Len(odVms) > 0
  THEN CeilDiv(sum(req, attr) * req.OnDemandPct,
               100 * getAttrValue(SelectOnDemand(attr, odVms, odVms[1]), attr))
  ELSE 0

\* the on-demand pools of the plan
OnDemandPools(attr, odVms, req, layout) ==
  LET carried == FilterSeq(layout.nps,
                   [np \in SeqRange(layout.nps) |-> np.VmClass = regular])
      selectedOnDemand == SelectOnDemand(attr, odVms, odVms[1])
      odNodesToAdd == OdNodesToAdd(attr, odVms, req)
  IN IF Len(odVms) = 0 THEN carried
     ELSE IF layout.nil
     THEN carried \o <<NodePool(selectedOnDemand, odNodesToAdd, regular)>>
     ELSE SeqOf([i \in 1..Len(carried) |->
             IF carried[i].VmType.Type = selectedOnDemand.Type
             THEN [carried[i] EXCEPT !.SumNodes = @ + odNodesToAdd]
             ELSE carried[i]])

\* sumSpotValue = req.sum(attr) - actualOnDemandResources
SumSpotValue(attr, odVms, req) ==
  IF Len(odVms) > 0
  THEN sum(req, attr)
       - getAttrValue(SelectOnDemand(attr, odVms, odVms[1]), attr)
         * OdNodesToAdd(attr, odVms, req)
  ELSE sum(req, attr)

\* the number N of spot pools to fill
SpotN(attr, odVms, spotVms, req, layout) ==
  IF layout.nil
  THEN Min2(findN(avgSpotNodeCount(req.MinNodes, req.MaxNodes,
                                   OdNodesToAdd(attr, odVms, req))),
            Len(spotVms))
  ELSE LET nonZeroNPs ==
             Cardinality({i \in 1..Len(layout.nps) :
                            /\ layout.nps[i].VmClass = spot
                            /\ layout.nps[i].SumNodes > 0})
       IN findNWithLayout(nonZeroNPs, Len(spotVms))

\* the spot pools handed to the fill loop
SpotPools(attr, spotVms, N, layout) ==
  LET sorted == sortByAttrValue(attr, spotVms)
  IN IF layout.nil
     THEN SeqOf([i \in 1..findM(N, sorted) |-> NodePool(sorted[i], 0, spot)])
     ELSE LET byNodes == ByNonZeroNodePools(layout.nps)
          IN FilterSeq(byNodes, [np \in SeqRange(byNodes) |->
               /\ np.VmClass = spot
               /\ \E j \in 1..Len(spotVms) : np.VmType.Type = spotVms[j].Type])

\* variant: the spot pools of the layout that are no candidates are left out
ExcludedSpotPoolsDropped(spotVms, layout) == <<>>

\* the spot pools of the layout that are no candidates
ExcludedSpotPools(spotVms, layout) ==
  LET byNodes == ByNonZeroNodePools(layout.nps)
  IN FilterSeq(byNodes, [np \in SeqRange(byNodes) |->
       /\ np.VmClass = spot
       /\ ~ \E j \in 1..Len(spotVms) : np.VmType.Type = spotVms[j].Type])

\* the call of fillSpotNodePools that RecommendNodePools makes
PlannerFillStart(attr, odVms, spotVms, req, layout) ==
  LET N == SpotN(attr, odVms, spotVms, req, layout)
  IN FillStart(SumSpotValue(attr, odVms, req), N,
               SpotPools(attr, spotVms, N, layout), attr)

RecommendNodePools(attr, odVms, spotVms, req, layout) ==
  LET filled == FillRun(PlannerFillStart(attr, odVms, spotVms, req, layout))
  IN [panic |-> filled.panic,
      nps |-> OnDemandPools(attr, odVms, req, layout)
              \o filled.nps
              \o ExcludedSpotPools(spotVms, layout)]

\* ------------------------------------------------------------------------
\* Plan selection and the response
\* ------------------------------------------------------------------------

RECURSIVE PlanPrice(_)
PlanPrice(nps) ==
  IF nps = <<>> THEN 0 ELSE poolPrice(Head(nps)) + PlanPrice(Tail(nps))

\* "for attr, nodePools := range nodePoolSets": order is the order in which
\* this run of the loop visits the keys of the map (Go leaves it unspecified)
RECURSIVE CheapestFrom(_, _, _, _)
CheapestFrom(nodePoolSets, order, bestPrice, cheapestNpSet) ==
  IF order = <<>> THEN cheapestNpSet
  ELSE IF Head(order) \notin DOMAIN nodePoolSets
  THEN CheapestFrom(nodePoolSets, Tail(order), bestPrice, cheapestNpSet)
  ELSE LET sumPrice == PlanPrice(nodePoolSets[Head(order)])
       IN IF bestPrice = 0 \/ bestPrice > sumPrice
          THEN CheapestFrom(nodePoolSets, Tail(order), sumPrice,
                            nodePoolSets[Head(order)])
          ELSE CheapestFrom(nodePoolSets, Tail(order), bestPrice, cheapestNpSet)

findCheapestNodePoolSet(nodePoolSets, order) ==
  CheapestFrom(nodePoolSets, order, 0, <<>>)

RECURSIVE SumOver(_, _, _)
SumOver(nps, classes, what) ==
  IF nps = <<>> THEN 0
  ELSE LET np == Head(nps)
           v == CASE what = "cpu" -> getSum(np, Cpu)
                  [] what = "mem" -> getSum(np, Memory)
                  [] what = "nodes" -> np.SumNodes
                  [] what = "price" -> poolPrice(np)
       IN (IF classes = "all" \/ (classes = "regular") = (np.VmClass = regular)
           THEN v ELSE 0)
          + SumOver(Tail(nps), classes, what)

\* variant: the spot sums taken over the pools of every class
findResponseSumSpotOverAll(zones, nodePoolSet) ==
  [RecCpu |-> SumOver(nodePoolSet, "all", "cpu"),
   RecMem |-> SumOver(nodePoolSet, "all", "mem"),
   RecNodes |-> SumOver(nodePoolSet, "all", "nodes"),
   RecZone |-> zones,
   RecRegularPrice |-> SumOver(nodePoolSet, "regular", "price"),
   RecRegularNodes |-> SumOver(nodePoolSet, "regular", "nodes"),
   RecSpotPrice |-> SumOver(nodePoolSet, "all", "price"),
   RecSpotNodes |-> SumOver(nodePoolSet, "all", "nodes"),
   RecTotalPrice |-> SumOver(nodePoolSet, "all", "price")]

findResponseSum(zones, nodePoolSet) ==
  [RecCpu |-> SumOver(nodePoolSet, "all", "cpu"),
   RecMem |-> SumOver(nodePoolSet, "all", "mem"),
   RecNodes |-> SumOver(nodePoolSet, "all", "nodes"),
   RecZone |-> zones,
   RecRegularPrice |-> SumOver(nodePoolSet, "regular", "price"),
   RecRegularNodes |-> SumOver(nodePoolSet, "regular", "nodes"),
   RecSpotPrice |-> SumOver(nodePoolSet, "other", "price"),
   RecSpotNodes |-> SumOver(nodePoolSet, "other", "nodes"),
   RecTotalPrice |-> SumOver(nodePoolSet, "all", "price")]

\* ------------------------------------------------------------------------
\* RecommendCluster
\* ------------------------------------------------------------------------

NoAccuracy == findResponseSum(<<>>, <<>>)

\* the outcome of a call: a response (kind "ok"), a returned error (kind
\* "error") or a run-time panic (kind "panic")
Failure(kind, msg) ==
  [kind |-> kind, err |-> msg, NodePools |-> <<>>, Zones |-> <<>>,
   Accuracy |-> NoAccuracy]

Response(zones, nodePools) ==
  [kind |-> "ok", err |-> "", NodePools |-> nodePools, Zones |-> zones,
   Accuracy |-> findResponseSum(zones, nodePools)]

Running == Failure("", "")

EmptyMap == [a \in {} |-> <<>>]

\* the body of "for _, attr := range attributes" for one attribute, up to
\* the call of RecommendNodePools; st holds the local variables req and
\* nodePools and the outcome once the call has returned.  The pass ends the
\* call ("return"), is given up ("continue") or reaches the planner ("plan")
AnchorPrepare(st, attr, provider, layoutDesc, desired, arch) ==
  LET values == IF layoutDesc.nil THEN recommendAttrValues(attr, st.req)
                ELSE [err |-> "", values |-> <<>>]
      vmsInRange == findVmsWithAttrValues(st.req.Zones, attr, values.values)
      layout == transformLayout(layoutDesc, vmsInRange)
      scaleout == computeScaleoutResources(layout.nps, attr, desired.cpu,
                                           desired.mem, desired.odPct, arch)
      req1 == IF layout.nil THEN st.req
              ELSE [st.req EXCEPT !.SumCpu = scaleout.SumCpu,
                                  !.SumMem = scaleout.SumMem,
                                  !.OnDemandPct = scaleout.OnDemandPct]
      vms == RecommendVms(vmsInRange, attr, filtersForAttr(attr, provider),
                          req1, layout)
      req2 == IF provider = "oracle" THEN [req1 EXCEPT !.OnDemandPct = 100]
              ELSE req1
      out(step, req, result) ==
        [step |-> step, req |-> req, result |-> result, layout |-> layout,
         odVms |-> IF step = "plan" THEN vms.odVms ELSE <<>>,
         spotVms |-> IF step = "plan" THEN vms.spotVms ELSE <<>>]
  IN IF values.err # ""
     THEN out("return", st.req,
              Failure("error", "failed to recommend attribute values"))
     ELSE IF ~ layout.nil /\ scaleout.err # ""
     THEN out("continue", req1, Running)
     ELSE IF ~ layout.nil /\ req1.SumCpu < 0 /\ req1.SumMem < 0
     THEN out("return", req1,
              Failure("error", "there's already enough resources in the cluster"))
     ELSE IF \/ Len(vms.odVms) = 0 /\ req1.OnDemandPct > 0
             \/ Len(vms.spotVms) = 0 /\ req1.OnDemandPct < 100
     THEN out("continue", req1, Running)
     ELSE out("plan", req2, Running)

\* AnchorPlan, had an anchor without viable vms ended the call
AnchorPlanStopsCall(st, attr, pre) ==
  LET nps == RecommendNodePools(attr, pre.odVms, pre.spotVms, pre.req,
                                pre.layout)
  IN IF pre.step = "continue"
     THEN [st EXCEPT !.req = pre.req,
                     !.result = Failure("error",
                       "could not recommend cluster with the requested resources")]
     ELSE IF pre.step # "plan"
     THEN [st EXCEPT !.req = pre.req, !.result = pre.result]
     ELSE IF nps.panic # ""
     THEN [st EXCEPT !.req = pre.req, !.result = Failure("panic", nps.panic)]
     ELSE [st EXCEPT !.req = pre.req,
                     !.nodePools = (attr :> nps.nps) @@ @]

\* the rest of the body of the loop, pre being what AnchorPrepare left
AnchorPlan(st, attr, pre) ==
  LET nps == RecommendNodePools(attr, pre.odVms, pre.spotVms, pre.req,
                                pre.layout)
  IN IF pre.step # "plan"
     THEN [st EXCEPT !.req = pre.req, !.result = pre.result]
     ELSE IF nps.panic # ""
     THEN [st EXCEPT !.req = pre.req, !.result = Failure("panic", nps.panic)]
     ELSE [st EXCEPT !.req = pre.req,
                     !.nodePools = (attr :> nps.nps) @@ @]

\* the whole body of the loop for one attribute
AnchorPass(st, attr, provider, layoutDesc, desired, arch) ==
  IF st.result.kind # "" THEN st
  ELSE TheOne({ AnchorPlan(st, attr, pre)
                 : pre \in {AnchorPrepare(st, attr, provider, layoutDesc,
                                          desired, arch)} })

\* the local variables of the call before the loop over the attributes
BeforeAnchors(req) == [req |-> req, nodePools |-> EmptyMap, result |-> Running]

\* desiredCpu, desiredMem and desiredOdPct of the call
Desired(req) ==
  [cpu |-> req.SumCpu, mem |-> req.SumMem, odPct |-> req.OnDemandPct]

\* the state of the call after the loop over the attributes
AfterAnchors(provider, req, layoutDesc, arch) ==
  TheOne({ AnchorPass(st, Memory, provider, layoutDesc, Desired(req), arch)
           : st \in {AnchorPass(BeforeAnchors(req), Cpu, provider,
                                layoutDesc, Desired(req), arch)} })

\* what the call returns after the loop; order is the iteration order of
\* the map of plans
ReturnAfterAnchors(st, order) ==
  IF st.result.kind # "" THEN st.result
  ELSE IF DOMAIN st.nodePools = {}
  THEN Failure("error",
               "could not recommend cluster with the requested resources")
  ELSE Response(st.req.Zones, findCheapestNodePoolSet(st.nodePools, order))

\* order: the iteration order of the map of plans; arch: the build
RecommendCluster(provider, req, layoutDesc, order, arch) ==
  TheOne({ ReturnAfterAnchors(st, order)
           : st \in {AfterAnchors(provider, req, layoutDesc, arch)} })

ScaleOutClusterReq(req) ==
  [SumCpu |-> req.DesiredCpu, SumMem |-> req.DesiredMem,
   MinNodes |-> 1, MaxNodes |-> MaxInt8, OnDemandPct |-> req.OnDemandPct,
   Zones |-> req.Zones, AllowBurst |-> "true", NetworkPerf |-> "nil",
   Excludes |-> req.Excludes,
   Includes |-> SeqOf([i \in 1..Len(req.ActualLayout) |->
                         req.ActualLayout[i].InstanceType]),
   AllowOlderGen |-> "true"]

RecommendClusterScaleOut(provider, req, order, arch) ==
  RecommendCluster(provider, ScaleOutClusterReq(req),
                   Layout(req.ActualLayout), order, arch)

\* ------------------------------------------------------------------------
\* Inputs of the model
\* ------------------------------------------------------------------------

Providers == {"amazon", "google", "oracle"}

\* builds of the program ( int(f) of a non-finite float differs )
Archs == {"amd64", "arm64"}

\* (sumCpu, sumMem) of a standard request, (desiredCpu, desiredMem) of a
\* scale-out request
SumPairs == {<<8, 8>>, <<8, 16>>, <<16, 8>>}

PctValues == {0, 50, 100}

\* "z3" is a zone in which no product has a spot price
ZoneLists == {<<>>, <<"z3">>}

\* a scale-out is planned from the types of the layout only, and every
\* provider other than oracle applies the same filters to it
ScaleoutProviders == {"amazon", "oracle"}

ExcludeLists == {<<>>, <<"a">>}

IncludeLists == {<<>>, <<"a", "c">>}

TriState == {"nil", "true", "false"}

NetworkPerfs == {"nil", "high"}

\* the iteration orders of the map of plans
MapOrders == {<<Cpu, Memory>>, <<Memory, Cpu>>}

NoFilter ==
  [AllowBurst |-> "nil", NetworkPerf |-> "nil", Excludes |-> <<>>,
   Includes |-> <<>>, AllowOlderGen |-> "nil"]

\* the filter fields of the standard requests: every pair of the two
\* tri-state flags, the network performance with and without older
\* generations, every pair of an includes and an excludes list
FilterSettings ==
  { [NoFilter EXCEPT !.AllowBurst = ab, !.AllowOlderGen = og] :
      ab \in TriState, og \in TriState }
  \cup
  { [NoFilter EXCEPT !.NetworkPerf = np, !.AllowOlderGen = og] :
      np \in NetworkPerfs, og \in {"nil", "true"} }
  \cup
  { [NoFilter EXCEPT !.Excludes = ex, !.Includes = inc, !.AllowOlderGen = "true"] :
      ex \in ExcludeLists, inc \in IncludeLists }

ClusterRecommendationReqs ==
  { [SumCpu |-> s[1], SumMem |-> s[2], MinNodes |-> mn, MaxNodes |-> mx,
     OnDemandPct |-> p, Zones |-> z, AllowBurst |-> f.AllowBurst,
     NetworkPerf |-> f.NetworkPerf, Excludes |-> f.Excludes,
     Includes |-> f.Includes, AllowOlderGen |-> f.AllowOlderGen] :
       s \in SumPairs, mn \in 1..MaxNodesBound, mx \in 1..MaxNodesBound,
       p \in PctValues, z \in ZoneLists, f \in FilterSettings }

NodePoolDesc(t, c, n) == [InstanceType |-> t, VmClass |-> c, SumNodes |-> n]

\* the pools a layout is made of: "ondemand" is the other name of "regular",
\* "d" has no spot price, "x" is a type the catalogue does not know
NodePoolDescs ==
  { NodePoolDesc(t, c, n) :
      t \in {"a", "b", "d"}, c \in {regular, spot}, n \in 1..MaxLayoutNodes }
  \cup
  { NodePoolDesc("a", ondemand, n) : n \in 1..MaxLayoutNodes }
  \cup
  { NodePoolDesc("x", spot, n) : n \in 1..MaxLayoutNodes }

ActualLayouts ==
  { <<p>> : p \in NodePoolDescs } \cup
  { <<p, q>> : p \in NodePoolDescs, q \in NodePoolDescs }

ClusterScaleoutRecommendationReqs ==
  { [DesiredCpu |-> s[1], DesiredMem |-> s[2], OnDemandPct |-> p,
     Zones |-> z, Excludes |-> ex, ActualLayout |-> l] :
       s \in SumPairs, p \in PctValues, z \in {<<>>},
       ex \in ExcludeLists, l \in ActualLayouts }

\* ------------------------------------------------------------------------
\* CachingProductInfo: the cache, its readers and the renewals of Start
\* ------------------------------------------------------------------------

\* the one provider whose product info is cached, and its regions
CachedProvider == "amazon"

Regions == {"r1", "r2"}

\* getAttrKey, getVmKey and getPriceKey: the key of the values of an
\* attribute, of the vms of an attribute value and of the spot prices of
\* a region
getAttrKey(provider, attribute) ==
  [kind |-> "attrValues", provider |-> provider, name |-> attribute]

getVmKey(provider, attrKey) ==
  [kind |-> "vms", provider |-> provider, name |-> attrKey]

getPriceKey(provider, region) ==
  [kind |-> "prices", provider |-> provider, name |-> region]

AttrKeys == {getAttrKey(CachedProvider, a) : a \in {Cpu, Memory}}

VmKeys == {getVmKey(CachedProvider, a) : a \in {Cpu, Memory}}

PriceKeys == {getPriceKey(CachedProvider, r) : r \in Regions}

CacheKeys == AttrKeys \cup VmKeys \cup PriceKeys

VARIABLES
  store,      \* vmAttrStore: for every key "none" or who stored the value
  callers,    \* the goroutines calling getAttrValues
  longPass,   \* the runs of renew: the one started by "go renew()" and
              \* the one the ticker loop runs
  shortPass,  \* the runs of renewShortLived, likewise
  loop,       \* where the two ticker loops of Start are
  tick,       \* whether a tick waits in ticker.C and shortTicker.C
  cancelled   \* whether ctx is done

cacheVars == <<store, callers, longPass, shortPass, loop, tick, cancelled>>

VARIABLES
  engine,     \* the Engine value that all requests are served on
  serving,    \* the requests being served at the same time on it
  sel,        \* a call of findValuesBetween
  priced,     \* a product turned into a virtual machine for a zone list
  scaled,     \* a layout and desired totals turned into what to add
  attrCall    \* a call of CachingProductInfo.GetAttrValues

concVars == <<engine, serving>>

auxVars == <<cacheVars, concVars, sel, priced, scaled, attrCall>>

\* what a key of the cache holds: nothing, or the value that a reader
\* ("caller", with its number) or a renewal ("renew") fetched and stored
NoValue == [by |-> "none", id |-> 0]

ValueOf(by, id) == [by |-> by, id |-> id]

EmptyStore == [k \in CacheKeys |-> NoValue]

\* the state of the cache part while Start has not been called
CacheIdle ==
  /\ store = EmptyStore
  /\ callers = <<>>
  /\ longPass = <<>>
  /\ shortPass = <<>>
  /\ loop = [long |-> "idle", short |-> "idle"]
  /\ tick = [long |-> FALSE, short |-> FALSE]
  /\ cancelled = FALSE

\* NewEngine: the catalogue client and the logger
NewEngine == [ciSource |-> "cloudinfo", log |-> "logger"]

NoSel ==
  [attrValues |-> <<>>, minN |-> 0, minD |-> 1, maxN |-> 0, maxD |-> 1,
   done |-> FALSE, out |-> [err |-> "", values |-> <<>>]]

NoScaled ==
  [layout |-> <<>>, attr |-> "", desiredCpu |-> 0, desiredMem |-> 0,
   desiredOdPct |-> 0, arch |-> "", done |-> FALSE,
   out |-> [SumCpu |-> 0, SumMem |-> 0, OnDemandPct |-> 0, err |-> ""]]

NoPriced == [SpotPrice |-> <<>>, zones |-> <<>>, done |-> FALSE, AvgPrice |-> 0]

\* the state outside the cache while no request is served
ConcIdle == engine = NewEngine /\ serving = <<>>

NoAttrCall == [stored |-> <<>>, attr |-> "", done |-> FALSE, out |-> <<>>]

PureIdle ==
  sel = NoSel /\ priced = NoPriced /\ scaled = NoScaled /\ attrCall = NoAttrCall

AuxIdle == CacheIdle /\ ConcIdle /\ PureIdle

\* ------------------------------------------------------------------------
\* The engine serving requests
\* ------------------------------------------------------------------------

VARIABLES
  call,     \* the request being served: op, provider, req, layoutDesc, and
            \* arch, the architecture the serving program was built for
  result,   \* the outcome of serving it
  rerun,    \* the outcome of serving the same request once more
  fill,     \* the local variables of a run of fillSpotNodePools
  fillPc,   \* where that run is: "idle", "loop", "returned", "panic"
  mono,     \* two runs of the planner that differ in OnDemandPct only
  div       \* a run of the planner on a list of spot candidates

engineVars == <<call, result, rerun>>

plannerVars == <<fill, fillPc, mono, div>>

vars == <<call, result, rerun, fill, fillPc, mono, div, auxVars>>

NoCall ==
  [op |-> "none", provider |-> "", layoutDesc |-> NilLayout, arch |-> "",
   req |-> [SumCpu |-> 0, SumMem |-> 0, MinNodes |-> 0, MaxNodes |-> 0,
            OnDemandPct |-> 0, Zones |-> <<>>, AllowBurst |-> "nil",
            NetworkPerf |-> "nil", Excludes |-> <<>>, Includes |-> <<>>,
            AllowOlderGen |-> "nil"]]

NoFill == FillStart(0, 0, <<>>, Cpu)

NoPlan == [panic |-> "", nps |-> <<>>]

NoMono ==
  [attr |-> Cpu, vms |-> <<>>, req |-> NoCall.req, pct1 |-> 0, pct2 |-> 0,
   done |-> FALSE, plan1 |-> NoPlan, plan2 |-> NoPlan, N1 |-> 0, N2 |-> 0]

NoDiv ==
  [attr |-> Cpu, vms |-> <<>>, req |-> NoCall.req, done |-> FALSE,
   plan |-> NoPlan]

EngineIdle ==
  /\ call = NoCall
  /\ result = Running
  /\ rerun = Running

Init ==
  /\ EngineIdle
  /\ fill = NoFill /\ fillPc = "idle"
  /\ mono = NoMono
  /\ div = NoDiv
  /\ AuxIdle

\* POST .../cluster.  A standard request does not reach the conversion
\* that differs between the builds.
Recommend ==
  /\ call.op = "none"
  /\ \E provider \in Providers, req \in ClusterRecommendationReqs :
       /\ req.MinNodes <= req.MaxNodes
       /\ \E st \in {AfterAnchors(provider, req, NilLayout, "amd64")},
             order \in MapOrders :
               /\ call' = [op |-> "cluster", provider |-> provider,
                           layoutDesc |-> NilLayout, arch |-> "amd64",
                           req |-> req]
               /\ result' = ReturnAfterAnchors(st, order)
       /\ rerun' = Running
       /\ UNCHANGED <<auxVars, fill, fillPc, mono, div>>

\* POST .../cluster/scaleout
RecommendScaleOut ==
  /\ call.op = "none"
  /\ \E provider \in ScaleoutProviders,
        req \in ClusterScaleoutRecommendationReqs, arch \in Archs :
       /\ \E st \in {AfterAnchors(provider, ScaleOutClusterReq(req),
                                    Layout(req.ActualLayout), arch)},
             order \in MapOrders :
               /\ call' = [op |-> "scaleout", provider |-> provider,
                           layoutDesc |-> Layout(req.ActualLayout),
                           arch |-> arch, req |-> ScaleOutClusterReq(req)]
               /\ result' = ReturnAfterAnchors(st, order)
       /\ rerun' = Running
       /\ UNCHANGED <<auxVars, fill, fillPc, mono, div>>

\* the same request is served once more, the catalogue being unchanged
Repeat ==
  /\ call.op # "none"
  /\ rerun = Running
  /\ \E st \in {AfterAnchors(call.provider, call.req, call.layoutDesc,
                              call.arch)},
        order \in MapOrders :
       rerun' = ReturnAfterAnchors(st, order)
  /\ UNCHANGED <<auxVars, call, result, fill, fillPc, mono, div>>

\* the outcome is handed to the caller; the engine keeps nothing of the call
Respond ==
  /\ call.op # "none"
  /\ call' = NoCall
  /\ result' = Running
  /\ rerun' = Running
  /\ UNCHANGED <<auxVars, fill, fillPc, mono, div>>

Next == Recommend \/ RecommendScaleOut \/ Repeat \/ Respond

Spec == Init /\ [][Next]_vars

\* ------------------------------------------------------------------------
\* The fill loop, iteration by iteration, on the calls the planner makes
\* ------------------------------------------------------------------------

\* the call of fillSpotNodePools (at the head of its second loop) that
\* the pass for one attribute makes, if it makes one
PlannerCallOf(st, attr, provider, layoutDesc, desired, arch) ==
  IF st.result.kind # "" THEN {}
  ELSE UNION { IF pre.step = "plan"
               THEN {PlannerFillStart(attr, pre.odVms, pre.spotVms, pre.req,
                                      pre.layout)}
               ELSE {}
               : pre \in {AnchorPrepare(st, attr, provider, layoutDesc,
                                        desired, arch)} }

\* the calls of fillSpotNodePools that serving one request makes
PlannerCallsOf(provider, req, layoutDesc, arch) ==
  UNION { PlannerCallOf(st0, Cpu, provider, layoutDesc, Desired(req), arch)
          \cup
          UNION { PlannerCallOf(st1, Memory, provider, layoutDesc,
                                Desired(req), arch)
                  : st1 \in {AnchorPass(st0, Cpu, provider, layoutDesc,
                                        Desired(req), arch)} }
          : st0 \in {BeforeAnchors(req)} }

FillInvocations ==
  UNION { PlannerCallsOf(p, r, NilLayout, a) :
            p \in Providers,
            r \in {q \in ClusterRecommendationReqs : q.MinNodes <= q.MaxNodes},
            a \in Archs }
  \cup
  UNION { PlannerCallsOf(p, ScaleOutClusterReq(r), Layout(r.ActualLayout), a) :
            p \in ScaleoutProviders, r \in ClusterScaleoutRecommendationReqs,
            a \in Archs }

InitFill ==
  /\ EngineIdle
  /\ AuxIdle
  /\ fill \in FillInvocations
  /\ fillPc = IF fill.panic # "" THEN "panic" ELSE "loop"
  /\ mono = NoMono
  /\ div = NoDiv

\* one iteration of "for sumValueInPools < desiredSpotValue"
FillStep ==
  /\ fillPc = "loop"
  /\ FillContinues(fill)
  /\ fill' = FillIter(fill)
  /\ fillPc' = IF fill'.panic # "" THEN "panic" ELSE "loop"
  /\ UNCHANGED <<auxVars, engineVars, mono, div>>

\* the loop condition fails: "return nps"
FillReturn ==
  /\ fillPc = "loop"
  /\ ~ FillContinues(fill)
  /\ fillPc' = "returned"
  /\ UNCHANGED <<auxVars, engineVars, fill, mono, div>>

NextFill == FillStep \/ FillReturn

SpecFill == InitFill /\ [][NextFill]_vars

\* ------------------------------------------------------------------------
\* The fill loop on lists of spot pools given directly
\* ------------------------------------------------------------------------

\* the longest list of spot pools
MaxPools == 3

\* the nodes a pool holds when the loop starts (0 in a cold start)
PoolStartNodes == {0, 1}

\* cpus of the vms of the pools; the memory of a vm is 12 - cpus
PoolVmCpus == {2, 4, 8}

PoolSpotValues == {8, 16, 24}

PoolVm(cpus) ==
  [ZeroVm EXCEPT !.Type = IF cpus = 2 THEN "s2" ELSE IF cpus = 4 THEN "s4"
                          ELSE "s8",
                 !.Cpus = cpus, !.Mem = 12 - cpus, !.AvgPrice = cpus,
                 !.OnDemandPrice = 3 * cpus, !.CurrentGen = TRUE]

\* lists of up to MaxPools spot pools, in any order of their vms
PoolLists ==
  UNION {[1..k -> {NodePool(PoolVm(c), n, spot) :
                     c \in PoolVmCpus, n \in PoolStartNodes}]
         : k \in 1..MaxPools}

InitPools ==
  /\ EngineIdle
  /\ AuxIdle
  /\ mono = NoMono
  /\ div = NoDiv
  /\ \E nps \in PoolLists, attr \in {Cpu, Memory},
        sumSpotValue \in PoolSpotValues :
       \E N \in 1..Len(nps) :
         fill = FillStart(sumSpotValue, N, nps, attr)
  /\ fillPc = "loop"

SpecPools == InitPools /\ [][NextFill]_vars

\* ------------------------------------------------------------------------
\* The planner on a fixed anchor with fixed candidates, requests that differ
\* in OnDemandPct only (cold start)
\* ------------------------------------------------------------------------

\* the products that have spot prices, as the vms of the default zones
SpotCapableVms ==
  FilterSeq(findVmsWithAttrValues(<<>>, Cpu, <<>>),
            [vm \in SeqRange(findVmsWithAttrValues(<<>>, Cpu, <<>>)) |->
               vm.AvgPrice # 0])

\* the non-empty subsequences of a sequence
RECURSIVE SubSeqs(_)
SubSeqs(s) ==
  IF s = <<>> THEN {<<>>}
  ELSE LET rest == SubSeqs(Tail(s))
       IN rest \cup {<<Head(s)>> \o r : r \in rest}

CandidateLists == SubSeqs(SpotCapableVms) \ {<<>>}

MonoPctValues == {0, 10, 25, 50, 75, 100}

MonoSums == {8, 16, 32}

PlannerReq(sumA, mn, mx, pct) ==
  [NoCall.req EXCEPT !.SumCpu = sumA, !.SumMem = sumA, !.MinNodes = mn,
                     !.MaxNodes = mx, !.OnDemandPct = pct]

InitMono ==
  /\ EngineIdle
  /\ AuxIdle
  /\ fill = NoFill /\ fillPc = "idle"
  /\ div = NoDiv
  /\ \E attr \in {Cpu, Memory}, vms \in CandidateLists, sumA \in MonoSums,
        mn \in 1..MaxNodesBound, mx \in 1..MaxNodesBound,
        p1 \in MonoPctValues, p2 \in MonoPctValues :
       /\ mn <= mx
       /\ p1 <= p2
       /\ mono = [NoMono EXCEPT !.attr = attr, !.vms = vms,
                                !.req = PlannerReq(sumA, mn, mx, 0),
                                !.pct1 = p1, !.pct2 = p2]

\* RecommendNodePools for the request with pct1 and for the one with pct2
PlanBoth ==
  /\ ~ mono.done
  /\ LET req1 == [mono.req EXCEPT !.OnDemandPct = mono.pct1]
         req2 == [mono.req EXCEPT !.OnDemandPct = mono.pct2]
     IN mono' = [mono EXCEPT
          !.done = TRUE,
          !.plan1 = RecommendNodePools(mono.attr, mono.vms, mono.vms, req1,
                                       NilLayout),
          !.plan2 = RecommendNodePools(mono.attr, mono.vms, mono.vms, req2,
                                       NilLayout),
          !.N1 = SpotN(mono.attr, mono.vms, mono.vms, req1, NilLayout),
          !.N2 = SpotN(mono.attr, mono.vms, mono.vms, req2, NilLayout)]
  /\ UNCHANGED <<auxVars, engineVars, fill, fillPc, div>>

NextMono == PlanBoth

SpecMono == InitMono /\ [][NextMono]_vars

\* ------------------------------------------------------------------------
\* The planner on lists of up to MaxSpotCandidates spot candidates and node
\* counts through all the steps of findN (cold start)
\* ------------------------------------------------------------------------

MaxSpotCandidates == 13

MaxNodeCount == 38

TypeNames ==
  <<"t01", "t02", "t03", "t04", "t05", "t06", "t07", "t08", "t09", "t10",
    "t11", "t12", "t13", "t14", "t15", "t16">>

\* S vms of distinct price per attribute value: every sorting algorithm
\* puts them into the same order
ManyVms(S) ==
  SeqOf([i \in 1..S |->
     [ZeroVm EXCEPT !.Type = TypeNames[i], !.Cpus = 4, !.Mem = 4,
                    !.AvgPrice = 2 * (S + 1 - i), !.OnDemandPrice = 40 + 2 * i,
                    !.CurrentGen = TRUE]])

InitDiv ==
  /\ EngineIdle
  /\ AuxIdle
  /\ fill = NoFill /\ fillPc = "idle"
  /\ mono = NoMono
  /\ \E attr \in {Cpu, Memory}, S \in 1..MaxSpotCandidates,
        mx \in 1..MaxNodeCount, d \in {0, 1}, pct \in PctValues :
       /\ mx - d >= 1
       /\ div = [NoDiv EXCEPT !.attr = attr, !.vms = ManyVms(S),
                              !.req = PlannerReq(8, mx - d, mx, pct)]

Diversify ==
  /\ ~ div.done
  /\ div' = [div EXCEPT
       !.done = TRUE,
       !.plan = RecommendNodePools(div.attr, div.vms, div.vms, div.req,
                                   NilLayout)]
  /\ UNCHANGED <<auxVars, engineVars, fill, fillPc, mono>>

NextDiv == Diversify

SpecDiv == InitDiv /\ [][NextDiv]_vars

\* ------------------------------------------------------------------------
\* The planner on candidate lists with equal prices per attribute value
\* (cold start).  SpecPools is defined further up with PoolVm.
\* ------------------------------------------------------------------------

\* s2, s4 and s8 cost 3 per cpu, p4 costs 4 per cpu; per unit of memory the
\* four differ
OdCandidates ==
  {PoolVm(2), PoolVm(4), PoolVm(8),
   [PoolVm(4) EXCEPT !.Type = "p4", !.OnDemandPrice = 16, !.Mem = 4]}

\* the lists of up to MaxPools candidates, none twice, in any order
OdCandidateLists ==
  {vms \in UNION {[1..k -> OdCandidates] : k \in 1..MaxPools} :
     \A i, j \in 1..Len(vms) : vms[i] = vms[j] => i = j}

InitOnDemand ==
  /\ EngineIdle
  /\ AuxIdle
  /\ fill = NoFill /\ fillPc = "idle"
  /\ mono = NoMono
  /\ \E attr \in {Cpu, Memory}, vms \in OdCandidateLists,
        sumA \in PoolSpotValues, mn \in 1..MaxNodesBound,
        mx \in 1..MaxNodesBound, pct \in MonoPctValues :
       /\ mn <= mx
       /\ div = [NoDiv EXCEPT !.attr = attr, !.vms = vms,
                              !.req = PlannerReq(sumA, mn, mx, pct)]

SpecOnDemand == InitOnDemand /\ [][NextDiv]_vars

\* ------------------------------------------------------------------------
\* Readers of the cache: getAttrValues called from several goroutines
\* ------------------------------------------------------------------------

MaxCallers == 2

Callers == 1..MaxCallers

\* the variables that the cache and its renewals leave alone
nonCacheVars == <<engineVars, plannerVars, concVars, sel, priced, scaled, attrCall>>

NonCacheIdle ==
  /\ EngineIdle
  /\ fill = NoFill /\ fillPc = "idle"
  /\ mono = NoMono
  /\ div = NoDiv
  /\ ConcIdle
  /\ PureIdle

\* a goroutine outside getAttrValues
IdleCaller == [pc |-> "idle", key |-> getAttrKey(CachedProvider, Cpu),
               got |-> NoValue, err |-> FALSE]

InitMiss ==
  /\ NonCacheIdle
  /\ store = EmptyStore
  /\ callers = [c \in Callers |-> IdleCaller]
  /\ longPass = <<>>
  /\ shortPass = <<>>
  /\ loop = [long |-> "idle", short |-> "idle"]
  /\ tick = [long |-> FALSE, short |-> FALSE]
  /\ cancelled = FALSE

\* "if cachedVal, ok := pi.vmAttrStore.Get(attrCacheKey); ok": a hit
\* returns the cached value, a miss goes on to renewAttrValues
Get(c) ==
  /\ callers[c].pc = "idle"
  /\ \E attribute \in {Cpu, Memory} :
       LET k == getAttrKey(CachedProvider, attribute)
       IN callers' = [callers EXCEPT ![c] =
            IF store[k] # NoValue
            THEN [pc |-> "done", key |-> k, got |-> store[k], err |-> FALSE]
            ELSE [pc |-> "renew", key |-> k, got |-> NoValue, err |-> FALSE]]
  /\ UNCHANGED <<store, longPass, shortPass, loop, tick, cancelled,
                 nonCacheVars>>

\* renewAttrValues: "values, err := ...GetAttributeValues(attr)", the call
\* of the external system, which returns values or an error
GetAttributeValuesUpstream(c) ==
  /\ callers[c].pc = "renew"
  /\ \E ok \in BOOLEAN :
       callers' = [callers EXCEPT ![c] =
         IF ok THEN [@ EXCEPT !.pc = "set", !.got = ValueOf("caller", c)]
         ELSE [@ EXCEPT !.pc = "done", !.err = TRUE]]
  /\ UNCHANGED <<store, longPass, shortPass, loop, tick, cancelled,
                 nonCacheVars>>

\* renewAttrValues: "pi.vmAttrStore.Set(key, values, pi.renewalInterval)"
Set(c) ==
  /\ callers[c].pc = "set"
  /\ store' = [store EXCEPT ![callers[c].key] = callers[c].got]
  /\ callers' = [callers EXCEPT ![c].pc = "done"]
  /\ UNCHANGED <<longPass, shortPass, loop, tick, cancelled,
                 nonCacheVars>>

\* getAttrValues returns
Return(c) ==
  /\ callers[c].pc = "done"
  /\ callers' = [callers EXCEPT ![c] = IdleCaller]
  /\ UNCHANGED <<store, longPass, shortPass, loop, tick, cancelled,
                 nonCacheVars>>

\* the entry of a key outlives its time to live and is dropped
Expire(k) ==
  /\ store[k] # NoValue
  /\ store' = [store EXCEPT ![k] = NoValue]
  /\ UNCHANGED <<callers, longPass, shortPass, loop, tick, cancelled,
                 nonCacheVars>>

NextMiss ==
  \/ \E c \in Callers :
       Get(c) \/ GetAttributeValuesUpstream(c) \/ Set(c) \/ Return(c)
  \/ \E k \in AttrKeys : Expire(k)

SpecMiss == InitMiss /\ [][NextMiss]_vars

\* ------------------------------------------------------------------------
\* The expiry of the cache entries: what Initialize, the renewals and the
\* readers of zones and regions hand to vmAttrStore.Set.  Durations are in
\* minutes; an entry of store holds the duration it was set with (d) and
\* the one the cache keeps for it (Expiration).
\* ------------------------------------------------------------------------

\* "product-info-renewal-interval", 24 hours unless configured
renewalInterval == 1440

\* cache.New(24*time.Hour, ...): the default expiry of the cache
defaultExpiration == 1440

\* "2*time.Minute"
ShortLivedTtl == 2

\* the duration that stands for the default expiry in a call of Set
DefaultExpiration == 0

InstTypes == {"a", "b"}

getVmKeyOfRegion(provider, region, attrKey) ==
  [kind |-> "vms", provider |-> provider, name |-> <<region, attrKey>>]

getPriceKeyOfType(provider, region, instType) ==
  [kind |-> "prices", provider |-> provider, name |-> <<region, instType>>]

getZonesKey(provider, region) ==
  [kind |-> "zones", provider |-> provider, name |-> region]

getRegionsKey(provider) ==
  [kind |-> "regions", provider |-> provider, name |-> ""]

PriceKeysOf(region) ==
  {getPriceKeyOfType(CachedProvider, region, t) : t \in InstTypes}

ExpiryKeys ==
  {getAttrKey(CachedProvider, a) : a \in {Cpu, Memory}}
  \cup {getVmKeyOfRegion(CachedProvider, r, a) :
          r \in Regions, a \in {Cpu, Memory}}
  \cup UNION {PriceKeysOf(r) : r \in Regions}
  \cup {getZonesKey(CachedProvider, r) : r \in Regions}
  \cup {getRegionsKey(CachedProvider)}

NoItem == [d |-> -1, Expiration |-> -1]

\* go-cache Set(k, x, d): "if d == DefaultExpiration { d = c.defaultExpiration }"
Item(d) ==
  [d |-> d,
   Expiration |-> IF d = DefaultExpiration THEN defaultExpiration ELSE d]

\* Set applied to every key of ks
SetAll(st, ks, d) == [k \in DOMAIN st |-> IF k \in ks THEN Item(d) ELSE st[k]]

InitExpiry ==
  /\ NonCacheIdle
  /\ store = [k \in ExpiryKeys |-> NoItem]
  /\ callers = <<>>
  /\ longPass = <<>>
  /\ shortPass = <<>>
  /\ loop = [long |-> "idle", short |-> "idle"]
  /\ tick = [long |-> FALSE, short |-> FALSE]
  /\ cancelled = FALSE

\* Initialize, the first step of a renewal: the prices that the infoer
\* returns (any of the types of any of the regions) are set
Initialize ==
  /\ \E ks \in SUBSET (UNION {PriceKeysOf(r) : r \in Regions}) :
       /\ ks # {}
       /\ store' = SetAll(store, ks, renewalInterval)
  /\ UNCHANGED <<callers, longPass, shortPass, loop, tick, cancelled,
                 nonCacheVars>>

\* renewAttrValues, from a renewal or from getAttrValues on a miss
renewAttrValues(attr) ==
  /\ store' = SetAll(store, {getAttrKey(CachedProvider, attr)}, renewalInterval)
  /\ store' # store
  /\ UNCHANGED <<callers, longPass, shortPass, loop, tick, cancelled,
                 nonCacheVars>>

\* renewVmsWithAttr, from a renewal or from GetVmsWithAttrValue on a miss
renewVmsWithAttr(region, attr) ==
  /\ store' = SetAll(store, {getVmKeyOfRegion(CachedProvider, region, attr)},
                     renewalInterval)
  /\ store' # store
  /\ UNCHANGED <<callers, longPass, shortPass, loop, tick, cancelled,
                 nonCacheVars>>

\* renewShortLivedInfo, from a short renewal or from GetPrice on a miss:
\* the current prices of the region (of any of its types) are set
renewShortLivedInfo(region) ==
  /\ \E ks \in SUBSET PriceKeysOf(region) :
       /\ ks # {}
       /\ store' = SetAll(store, ks, ShortLivedTtl)
       /\ store' # store
  /\ UNCHANGED <<callers, longPass, shortPass, loop, tick, cancelled,
                 nonCacheVars>>

\* GetZones on a miss
GetZonesOnMiss(region) ==
  /\ store[getZonesKey(CachedProvider, region)] = NoItem
  /\ store' = SetAll(store, {getZonesKey(CachedProvider, region)},
                     DefaultExpiration)
  /\ UNCHANGED <<callers, longPass, shortPass, loop, tick, cancelled,
                 nonCacheVars>>

\* GetRegions on a miss
GetRegionsOnMiss ==
  /\ store[getRegionsKey(CachedProvider)] = NoItem
  /\ store' = SetAll(store, {getRegionsKey(CachedProvider)}, DefaultExpiration)
  /\ UNCHANGED <<callers, longPass, shortPass, loop, tick, cancelled,
                 nonCacheVars>>

\* the entry has expired
ExpireItem(k) ==
  /\ store[k] # NoItem
  /\ store' = [store EXCEPT ![k] = NoItem]
  /\ UNCHANGED <<callers, longPass, shortPass, loop, tick, cancelled,
                 nonCacheVars>>

NextExpiry ==
  \/ Initialize
  \/ \E attr \in {Cpu, Memory} : renewAttrValues(attr)
  \/ \E r \in Regions, attr \in {Cpu, Memory} : renewVmsWithAttr(r, attr)
  \/ \E r \in Regions : renewShortLivedInfo(r)
  \/ \E r \in Regions : GetZonesOnMiss(r)
  \/ GetRegionsOnMiss
  \/ \E k \in ExpiryKeys : ExpireItem(k)

SpecExpiry == InitExpiry /\ [][NextExpiry]_vars

\* ------------------------------------------------------------------------
\* CachingProductInfo.Start: the two renewals and the two ticker loops
\* ------------------------------------------------------------------------

\* a renewal runs once from "go renew()" / "go renewShortLived()" and then
\* whenever the loop of its ticker receives a tick
PassIds == {"first", "tick"}

\* the keys renew goes through for the provider, in the order of its loops
LongKeys ==
  << getAttrKey(CachedProvider, Cpu), getVmKey(CachedProvider, Cpu),
     getAttrKey(CachedProvider, Memory), getVmKey(CachedProvider, Memory) >>

\* next: the place in LongKeys of the key the pass is at; err: whether the
\* last call of the external system in the pass returned an error
IdleLongPass == [state |-> "idle", next |-> 1, err |-> FALSE]

IdleShortPass == [state |-> "idle", regions |-> [r \in Regions |-> "todo"]]

InitStart ==
  /\ NonCacheIdle
  /\ store = EmptyStore
  /\ callers = <<>>
  /\ longPass = [id \in PassIds |->
       IF id = "first" THEN [IdleLongPass EXCEPT !.state = "running"]
       ELSE IdleLongPass]
  /\ shortPass = [id \in PassIds |->
       IF id = "first" THEN [IdleShortPass EXCEPT !.state = "running"]
       ELSE IdleShortPass]
  /\ loop = [long |-> "select", short |-> "select"]
  /\ tick = [long |-> FALSE, short |-> FALSE]
  /\ cancelled = FALSE

\* the pass after it has dealt with the key it was at
LongPassAfterKey(pass, ok) ==
  [state |-> IF pass.next = Len(LongKeys) THEN "done" ELSE "running",
   next |-> pass.next + 1,
   err |-> ~ ok]

\* the pass after renewAttrValues returned an error: the goroutine of the
\* provider returns
LongPassAfterAttrError(pass) ==
  [state |-> "done", next |-> pass.next, err |-> TRUE]

\* renew: "attrValues, err := pi.renewAttrValues(p, attr)" and the check of
\* err that follows it
RenewAttrValues(id) ==
  /\ longPass[id].state = "running"
  /\ LongKeys[longPass[id].next].kind = "attrValues"
  /\ \E ok \in BOOLEAN :
       IF ok
       THEN /\ store' = [store EXCEPT ![LongKeys[longPass[id].next]] =
                           ValueOf("renew", 0)]
            /\ longPass' = [longPass EXCEPT ![id] = LongPassAfterKey(@, TRUE)]
       ELSE /\ store' = store
            /\ longPass' = [longPass EXCEPT ![id] = LongPassAfterAttrError(@)]
  /\ UNCHANGED <<callers, shortPass, loop, tick, cancelled,
                 nonCacheVars>>

\* renew: "_, err := pi.renewVmsWithAttr(p, regionId, attr, v)" and the
\* check of err that follows it
RenewVmsWithAttr(id) ==
  /\ longPass[id].state = "running"
  /\ LongKeys[longPass[id].next].kind = "vms"
  /\ \E ok \in BOOLEAN :
       /\ store' = IF ok
                   THEN [store EXCEPT ![LongKeys[longPass[id].next]] =
                           ValueOf("renew", 0)]
                   ELSE store
       /\ longPass' = [longPass EXCEPT ![id] = LongPassAfterKey(@, ok)]
  /\ UNCHANGED <<callers, shortPass, loop, tick, cancelled,
                 nonCacheVars>>

\* renewShortLived: the goroutine of a region, "pi.renewShortLivedInfo(p, r)"
RenewShortLivedInfo(id, r) ==
  /\ shortPass[id].state = "running"
  /\ shortPass[id].regions[r] = "todo"
  /\ \E ok \in BOOLEAN :
       /\ store' = IF ok
                   THEN [store EXCEPT ![getPriceKey(CachedProvider, r)] =
                           ValueOf("renew", 0)]
                   ELSE store
       /\ shortPass' = [shortPass EXCEPT ![id].regions[r] =
                          IF ok THEN "ok" ELSE "failed"]
  /\ UNCHANGED <<callers, longPass, loop, tick, cancelled,
                 nonCacheVars>>

\* wg.Wait() and providerWg.Wait() of renewShortLived return
ShortPassDone(pass) == \A r \in Regions : pass.regions[r] # "todo"

\* the ticker of a loop sends a tick unless one waits in its channel
Tick(l) ==
  /\ loop[l] \in {"select", "renew"}
  /\ ~ tick[l]
  /\ tick' = [tick EXCEPT ![l] = TRUE]
  /\ UNCHANGED <<store, callers, longPass, shortPass, loop, cancelled,
                 nonCacheVars>>

\* "case <-ticker.C: renew()": the loop receives the tick and calls renew
LongSelectTick ==
  /\ loop.long = "select"
  /\ tick.long
  /\ tick' = [tick EXCEPT !.long = FALSE]
  /\ loop' = [loop EXCEPT !.long = "renew"]
  /\ longPass' = [longPass EXCEPT !["tick"] =
                    [IdleLongPass EXCEPT !.state = "running"]]
  /\ UNCHANGED <<store, callers, shortPass, cancelled,
                 nonCacheVars>>

\* renew() returns to the loop
LongRenewReturn ==
  /\ loop.long = "renew"
  /\ longPass["tick"].state = "done"
  /\ loop' = [loop EXCEPT !.long = "select"]
  /\ longPass' = [longPass EXCEPT !["tick"] = IdleLongPass]
  /\ UNCHANGED <<store, callers, shortPass, tick, cancelled,
                 nonCacheVars>>

\* LongSelectDone, had the loop not watched ctx.Done()
LongSelectDoneIgnored ==
  /\ loop.long = "select"
  /\ cancelled
  /\ UNCHANGED vars

\* "case <-ctx.Done(): ticker.Stop(); return"
LongSelectDone ==
  /\ loop.long = "select"
  /\ cancelled
  /\ loop' = [loop EXCEPT !.long = "exited"]
  /\ UNCHANGED <<store, callers, longPass, shortPass, tick, cancelled,
                 nonCacheVars>>

\* "case <-shortTicker.C: renewShortLived()"
ShortSelectTick ==
  /\ loop.short = "select"
  /\ tick.short
  /\ tick' = [tick EXCEPT !.short = FALSE]
  /\ loop' = [loop EXCEPT !.short = "renew"]
  /\ shortPass' = [shortPass EXCEPT !["tick"] =
                     [IdleShortPass EXCEPT !.state = "running"]]
  /\ UNCHANGED <<store, callers, longPass, cancelled,
                 nonCacheVars>>

\* renewShortLived() returns to the loop
ShortRenewReturn ==
  /\ loop.short = "renew"
  /\ ShortPassDone(shortPass["tick"])
  /\ loop' = [loop EXCEPT !.short = "select"]
  /\ shortPass' = [shortPass EXCEPT !["tick"] = IdleShortPass]
  /\ UNCHANGED <<store, callers, longPass, tick, cancelled,
                 nonCacheVars>>

\* "case <-ctx.Done(): shortTicker.Stop(); return"
ShortSelectDone ==
  /\ loop.short = "select"
  /\ cancelled
  /\ loop' = [loop EXCEPT !.short = "exited"]
  /\ UNCHANGED <<store, callers, longPass, shortPass, tick, cancelled,
                 nonCacheVars>>

\* the context given to Start is cancelled
Cancel ==
  /\ ~ cancelled
  /\ cancelled' = TRUE
  /\ UNCHANGED <<store, callers, longPass, shortPass, loop, tick,
                 nonCacheVars>>

NextStart ==
  \/ \E id \in PassIds : RenewAttrValues(id) \/ RenewVmsWithAttr(id)
  \/ \E id \in PassIds, r \in Regions : RenewShortLivedInfo(id, r)
  \/ \E l \in {"long", "short"} : Tick(l)
  \/ LongSelectTick \/ LongRenewReturn \/ LongSelectDone
  \/ ShortSelectTick \/ ShortRenewReturn \/ ShortSelectDone
  \/ Cancel

SpecStart == InitStart /\ [][NextStart]_vars

\* Start some time on: the renewals of the ticker loops have filled the
\* cache, the renewals started by "go renew()" and "go renewShortLived()"
\* have yet to make their first call, and the loops wait for a tick
InitStartLate ==
  /\ NonCacheIdle
  /\ store = [k \in CacheKeys |-> ValueOf("renew", 0)]
  /\ callers = <<>>
  /\ longPass = [id \in PassIds |->
       IF id = "first" THEN [IdleLongPass EXCEPT !.state = "running"]
       ELSE IdleLongPass]
  /\ shortPass = [id \in PassIds |->
       IF id = "first" THEN [IdleShortPass EXCEPT !.state = "running"]
       ELSE IdleShortPass]
  /\ loop = [long |-> "select", short |-> "select"]
  /\ tick = [long |-> FALSE, short |-> FALSE]
  /\ cancelled = FALSE

\* Start under the scheduling of the Go runtime: a goroutine that can run
\* does run and a call of the external system returns (weak fairness of the
\* steps of a renewal and of its return), and a select that is reached
\* again and again with ctx.Done() ready takes that case at some time, its
\* choice among the ready cases being uniformly random (strong fairness)
SpecStartFair ==
  /\ InitStartLate /\ [][NextStart]_vars
  /\ \A id \in PassIds :
       /\ WF_vars(RenewAttrValues(id))
       /\ WF_vars(RenewVmsWithAttr(id))
       /\ \A r \in Regions : WF_vars(RenewShortLivedInfo(id, r))
  /\ WF_vars(LongRenewReturn)
  /\ WF_vars(ShortRenewReturn)
  /\ SF_vars(LongSelectDone)
  /\ SF_vars(ShortSelectDone)

\* ------------------------------------------------------------------------
\* Requests served at the same time on one Engine
\* ------------------------------------------------------------------------

\* the goroutines of the HTTP server that call the engine
Requesters == {"g1", "g2"}

\* the calls they make: standard and scale-out requests
ConcCalls ==
  { [op |-> "cluster", provider |-> provider, layoutDesc |-> NilLayout,
     arch |-> "amd64", req |-> req] :
      provider \in {"amazon", "oracle"},
      req \in { r \in ClusterRecommendationReqs :
                  /\ r.MinNodes = 1 /\ r.MaxNodes = 2 /\ r.Zones = <<>>
                  /\ r.AllowBurst = "nil" /\ r.AllowOlderGen = "nil"
                  /\ r.NetworkPerf = "nil"
                  /\ r.Excludes = <<>> /\ r.Includes = <<>> } }
  \cup
  { [op |-> "scaleout", provider |-> "amazon",
     layoutDesc |-> Layout(req.ActualLayout), arch |-> "amd64",
     req |-> ScaleOutClusterReq(req)] :
      req \in { r \in ClusterScaleoutRecommendationReqs :
                  /\ r.DesiredCpu = 16 /\ r.OnDemandPct = 50
                  /\ r.Excludes = <<>>
                  /\ Len(r.ActualLayout) = 2
                  /\ r.ActualLayout[1] = NodePoolDesc("a", regular, 1)
                  /\ r.ActualLayout[2].VmClass = spot
                  /\ r.ActualLayout[2].SumNodes = 1 } }

\* a goroutine that is not in a call of the engine
NotServing ==
  [phase |-> "idle", call |-> NoCall, st |-> BeforeAnchors(NoCall.req),
   result |-> Running, met |-> FALSE]

InitConc ==
  /\ EngineIdle
  /\ fill = NoFill /\ fillPc = "idle"
  /\ mono = NoMono
  /\ div = NoDiv
  /\ CacheIdle
  /\ PureIdle
  /\ engine = NewEngine
  /\ serving = [g \in Requesters |-> NotServing]

\* the call of g is between its entry and its return
InCall(g) == serving[g].phase \in {"begun", "cpu"}

\* LocalsOf, had req and nodePools been kept in the Engine: a call works
\* on what the other call left there
LocalsInEngine(g) ==
  IF \E h \in Requesters \ {g} : InCall(h)
  THEN serving[CHOOSE h \in Requesters \ {g} : InCall(h)].st
  ELSE serving[g].st

\* the variables req and nodePools that the loop of the call of g works on:
\* variables of the call, on the stack of g
LocalsOf(g) == serving[g].st

\* RecommendCluster (RecommendClusterScaleOut, which calls it) is entered;
\* met records that the other goroutine was in a call then
Enter(g) ==
  /\ serving[g].phase = "idle"
  /\ \E c \in ConcCalls :
       serving' = [serving EXCEPT ![g] =
         [phase |-> "begun", call |-> c, st |-> BeforeAnchors(c.req),
          result |-> Running,
          met |-> \E h \in Requesters \ {g} : InCall(h)]]
  /\ UNCHANGED <<engine, cacheVars, engineVars, plannerVars, sel, priced, scaled, attrCall>>

\* one turn of "for _, attr := range attributes"
ServeAnchor(g) ==
  /\ InCall(g)
  /\ LET attr == IF serving[g].phase = "begun" THEN Cpu ELSE Memory
         c == serving[g].call
     IN \E st \in {AnchorPass(LocalsOf(g), attr, c.provider, c.layoutDesc,
                              Desired(c.req), c.arch)} :
          serving' = [serving EXCEPT ![g].st = st,
                                     ![g].phase = IF attr = Cpu THEN "cpu"
                                                  ELSE "memory"]
  /\ UNCHANGED <<engine, cacheVars, engineVars, plannerVars, sel, priced, scaled, attrCall>>

\* the call returns what is left after the loop
Leave(g) ==
  /\ serving[g].phase = "memory"
  /\ \E order \in MapOrders :
       serving' = [serving EXCEPT
         ![g].result = ReturnAfterAnchors(serving[g].st, order),
         ![g].phase = "returned"]
  /\ UNCHANGED <<engine, cacheVars, engineVars, plannerVars, sel, priced, scaled, attrCall>>

\* the goroutine is done with the response
Forget(g) ==
  /\ serving[g].phase = "returned"
  /\ serving' = [serving EXCEPT ![g] = NotServing]
  /\ UNCHANGED <<engine, cacheVars, engineVars, plannerVars, sel, priced, scaled, attrCall>>

NextConc ==
  \E g \in Requesters : Enter(g) \/ ServeAnchor(g) \/ Leave(g) \/ Forget(g)

SpecConc == InitConc /\ [][NextConc]_vars

\* ------------------------------------------------------------------------
\* findValuesBetween applied to a value domain and a window
\* ------------------------------------------------------------------------

\* the longest value domain handed to findValuesBetween
MaxAttrValues == 3

\* the largest numerator of a window boundary
MaxWindow == 9

\* the largest denominator of a window boundary (a node count)
MaxDen == 2

\* the values a domain is drawn from
AttrValueSet == {2, 4, 8}

\* the slices of at most n elements of S, in any order, repeats included
SeqsUpTo(S, n) == UNION {[1..k -> S] : k \in 0..n}

InitSelect ==
  /\ EngineIdle
  /\ fill = NoFill /\ fillPc = "idle"
  /\ mono = NoMono
  /\ div = NoDiv
  /\ CacheIdle
  /\ ConcIdle
  /\ priced = NoPriced
  /\ scaled = NoScaled
  /\ attrCall = NoAttrCall
  /\ \E attrValues \in SeqsUpTo(AttrValueSet, MaxAttrValues),
        minN \in 0..MaxWindow, maxN \in 0..MaxWindow,
        minD \in 1..MaxDen, maxD \in 1..MaxDen :
       sel = [attrValues |-> attrValues, minN |-> minN, minD |-> minD,
              maxN |-> maxN, maxD |-> maxD, done |-> FALSE,
              out |-> [err |-> "", values |-> <<>>]]

\* "values, err := e.findValuesBetween(attrValues, min, max)"
SelectValues ==
  /\ ~sel.done
  /\ sel' = [sel EXCEPT
       !.done = TRUE,
       !.out = findValuesBetween(sel.attrValues, sel.minN, sel.minD,
                                 sel.maxN, sel.maxD)]
  /\ UNCHANGED <<cacheVars, concVars, engineVars, plannerVars, priced,
                 scaled, attrCall>>

NextSelect == SelectValues

SpecSelect == InitSelect /\ [][NextSelect]_vars

\* ------------------------------------------------------------------------
\* avg applied to the spot prices of a product and the zones of a request
\* ------------------------------------------------------------------------

\* the zones of the region; no product has a spot price in "z4"
RegionZones == {"z1", "z2", "z3", "z4"}

PricedZones == <<"z1", "z2", "z3">>

\* spot prices, multiples of 6 so that every mean over up to three zones is
\* a whole number
SpotPriceValues == {6, 12}

\* the spot price lists of a product: each priced zone once or not at all
RECURSIVE SpotPriceLists(_)
SpotPriceLists(zs) ==
  IF zs = <<>> THEN {<<>>}
  ELSE LET rest == SpotPriceLists(Tail(zs))
       IN rest \cup {<<ZonePrice(Head(zs), p)>> \o r :
                       p \in SpotPriceValues, r \in rest}

\* the zone lists of a request: zones of the region in any order, none twice
ZoneListsOfRequest ==
  {zs \in SeqsUpTo(RegionZones, Cardinality(RegionZones)) :
     \A i, j \in 1..Len(zs) : zs[i] = zs[j] => i = j}

InitAvg ==
  /\ EngineIdle
  /\ fill = NoFill /\ fillPc = "idle"
  /\ mono = NoMono
  /\ div = NoDiv
  /\ CacheIdle
  /\ ConcIdle
  /\ sel = NoSel
  /\ scaled = NoScaled
  /\ attrCall = NoAttrCall
  /\ \E prices \in SpotPriceLists(PricedZones), zones \in ZoneListsOfRequest :
       priced = [NoPriced EXCEPT !.SpotPrice = prices, !.zones = zones]

\* findVmsWithAttrValues: "AvgPrice: avg(p.SpotPrice, zones)"
PriceVm ==
  /\ ~priced.done
  /\ priced' = [priced EXCEPT
       !.done = TRUE,
       !.AvgPrice = avg(priced.SpotPrice, priced.zones)]
  /\ UNCHANGED <<cacheVars, concVars, engineVars, plannerVars, sel, scaled, attrCall>>

NextAvg == PriceVm

SpecAvg == InitAvg /\ [][NextAvg]_vars

\* ------------------------------------------------------------------------
\* computeScaleoutResources applied to a layout and desired totals
\* ------------------------------------------------------------------------

\* desired on-demand percentages; with 21 the float64 quotient rounds
ScaleoutPctValues == {0, 21, 50, 100}

InitScaleout ==
  /\ EngineIdle
  /\ fill = NoFill /\ fillPc = "idle"
  /\ mono = NoMono
  /\ div = NoDiv
  /\ CacheIdle
  /\ ConcIdle
  /\ sel = NoSel
  /\ priced = NoPriced
  /\ attrCall = NoAttrCall
  /\ \E l \in ActualLayouts, attr \in {Cpu, Memory}, s \in SumPairs,
        pct \in ScaleoutPctValues, arch \in Archs :
       scaled = [NoScaled EXCEPT
         !.layout = transformLayout(Layout(l),
                      findVmsWithAttrValues(<<>>, attr, <<>>)).nps,
         !.attr = attr, !.desiredCpu = s[1], !.desiredMem = s[2],
         !.desiredOdPct = pct, !.arch = arch]

\* "req.SumCpu, req.SumMem, req.OnDemandPct, err =
\*    e.computeScaleoutResources(layout, attr, desiredCpu, desiredMem, desiredOdPct)"
ComputeScaleout ==
  /\ ~scaled.done
  /\ scaled' = [scaled EXCEPT
       !.done = TRUE,
       !.out = computeScaleoutResources(scaled.layout, scaled.attr,
                 scaled.desiredCpu, scaled.desiredMem, scaled.desiredOdPct,
                 scaled.arch)]
  /\ UNCHANGED <<cacheVars, concVars, engineVars, plannerVars, sel, priced,
                 attrCall>>

NextScaleout == ComputeScaleout

SpecScaleout == InitScaleout /\ [][NextScaleout]_vars

\* ------------------------------------------------------------------------
\* CachingProductInfo.GetAttrValues on the attribute values that the cache
\* holds
\* ------------------------------------------------------------------------

\* the numeric values of stored attribute values; 0 is a value too
StoredValueSet == {0, 2, 4, 8}

AttrValue(value) ==
  [StrValue |-> CASE value = 0 -> "0" [] value = 2 -> "2" [] value = 4 -> "4"
                  [] OTHER -> "8",
   Value |-> value]

\* "floatValues := make([]float64, len(v))": len(v) zeros; then every value
\* is appended
floatValues(v) ==
  SeqOf([i \in 1..Len(v) |-> 0]) \o SeqOf([i \in 1..Len(v) |-> v[i].Value])

InitAttrCall ==
  /\ EngineIdle
  /\ fill = NoFill /\ fillPc = "idle"
  /\ mono = NoMono
  /\ div = NoDiv
  /\ CacheIdle
  /\ ConcIdle
  /\ sel = NoSel
  /\ priced = NoPriced
  /\ scaled = NoScaled
  /\ \E values \in SeqsUpTo(StoredValueSet, MaxAttrValues),
        attr \in {Cpu, Memory} :
       attrCall = [NoAttrCall EXCEPT
         !.stored = SeqOf([i \in 1..Len(values) |-> AttrValue(values[i])]),
         !.attr = attr]

\* GetAttrValues(provider, attribute) with the values in the cache
GetAttrValues ==
  /\ ~attrCall.done
  /\ attrCall' = [attrCall EXCEPT !.done = TRUE,
                                  !.out = floatValues(attrCall.stored)]
  /\ UNCHANGED <<cacheVars, concVars, engineVars, plannerVars, sel, priced,
                 scaled>>

NextAttrCall == GetAttrValues

SpecAttrCall == InitAttrCall /\ [][NextAttrCall]_vars

\* ------------------------------------------------------------------------
\* Properties
\* ------------------------------------------------------------------------

\* sum(sumNodes * cpus) or sum(sumNodes * mem) of a plan
RECURSIVE Capacity(_, _)
Capacity(nps, attr) ==
  IF nps = <<>> THEN 0
  ELSE Head(nps).SumNodes
         * (IF attr = Cpu THEN Head(nps).VmType.Cpus ELSE Head(nps).VmType.Mem)
       + Capacity(Tail(nps), attr)

\* the number of nodes of a plan in the pools that are (or are not) regular
RECURSIVE NodeCount(_, _)
NodeCount(nps, wantRegular) ==
  IF nps = <<>> THEN 0
  ELSE (IF (Head(nps).VmClass = regular) = wantRegular
        THEN Head(nps).SumNodes ELSE 0)
       + NodeCount(Tail(nps), wantRegular)

PoolTypes(nps) == {nps[i].VmType.Type : i \in 1..Len(nps)}

\* the plans of the two anchors when the call on hand chose between them
AnchorPlans ==
  AfterAnchors(call.provider, call.req, call.layoutDesc, call.arch).nodePools

\* C1: a plan returned for a standard request has at least sumCpu cpus and
\* at least sumMem memory in total, whichever anchor produced it
StandardPlanCoversRequest ==
  (call.op = "cluster" /\ result.kind = "ok") =>
    /\ Capacity(result.NodePools, Cpu) >= call.req.SumCpu
    /\ Capacity(result.NodePools, Memory) >= call.req.SumMem

\* a standard plan with regular and spot nodes that the memory anchor
\* produced, the plan of the cpu anchor costing more
StandardPlanFromMemoryAnchor ==
  /\ call.op = "cluster" /\ result.kind = "ok"
  /\ NodeCount(result.NodePools, TRUE) > 0
  /\ NodeCount(result.NodePools, FALSE) > 0
  /\ DOMAIN AnchorPlans = {Cpu, Memory}
  /\ result.NodePools = AnchorPlans[Memory]
  /\ PlanPrice(AnchorPlans[Memory]) < PlanPrice(AnchorPlans[Cpu])

\* the pools of the running cluster as the engine sees them
LayoutPools ==
  transformLayout(call.layoutDesc,
                  findVmsWithAttrValues(call.req.Zones, Cpu, <<>>)).nps

\* the capacity of the running cluster of a scale-out call
LayoutCapacity(attr) == Capacity(LayoutPools, attr)

RECURSIVE DescNodes(_)
DescNodes(npds) ==
  IF npds = <<>> THEN 0 ELSE Head(npds).SumNodes + DescNodes(Tail(npds))

\* C2: a plan returned for a scale-out request, layout pools and added
\* nodes together, has at least desiredCpu cpus and desiredMem memory
ScaleOutPlanCoversDesired ==
  (call.op = "scaleout" /\ result.kind = "ok") =>
    /\ Capacity(result.NodePools, Cpu) >= call.req.SumCpu
    /\ Capacity(result.NodePools, Memory) >= call.req.SumMem

\* a scale-out plan that adds regular and spot nodes to a cluster that was
\* short of both cpus and memory
ScaleOutPlanAddsNodes ==
  /\ call.op = "scaleout" /\ result.kind = "ok"
  /\ LayoutCapacity(Cpu) < call.req.SumCpu
  /\ LayoutCapacity(Memory) < call.req.SumMem
  /\ NodeCount(result.NodePools, FALSE) > NodeCount(LayoutPools, FALSE)
  /\ NodeCount(result.NodePools, TRUE) > NodeCount(LayoutPools, TRUE)

\* C3: a run of the fill loop that is over has reached
\* sumValueInPools >= desiredSpotValue
FillReachesDesired ==
  fillPc \in {"returned", "panic"} =>
    fill.sumValueInPools >= fill.desiredSpotValue

\* the price of a plan: regular pools at the on-demand price, spot pools
\* at the average spot price
RECURSIVE PriceOfPlan(_)
PriceOfPlan(nps) ==
  IF nps = <<>> THEN 0
  ELSE Head(nps).SumNodes
         * (IF Head(nps).VmClass = regular THEN Head(nps).VmType.OnDemandPrice
            ELSE IF Head(nps).VmClass = spot THEN Head(nps).VmType.AvgPrice
            ELSE 0)
       + PriceOfPlan(Tail(nps))

\* the plan of lower price, the cpu-anchored one on equal prices
LowerPricedPlan(plans) ==
  IF Memory \notin DOMAIN plans THEN plans[Cpu]
  ELSE IF Cpu \notin DOMAIN plans THEN plans[Memory]
  ELSE IF PriceOfPlan(plans[Memory]) < PriceOfPlan(plans[Cpu])
  THEN plans[Memory]
  ELSE plans[Cpu]

\* C4: the plan returned is the one of lower price among the plans of the
\* anchors, and the cpu-anchored one when the prices are equal
ChosenPlanIsLowerPricedCpuFirst ==
  (call.op # "none" /\ result.kind = "ok") =>
    result.NodePools = LowerPricedPlan(AnchorPlans)

\* C5: serving the same request twice on the same catalogue gives the same
\* response, whatever the iteration order over the map of plans
RepeatedCallSameResponse ==
  rerun.kind # "" => rerun = result

\* the includes of the request (a scale-out request has none)
RequestIncludes ==
  IF call.op = "cluster" THEN call.req.Includes ELSE <<>>

\* C6 as stated: no pool of a returned plan, standard or scale-out, has a
\* type of the excludes, and with includes given every pool has a type of
\* the includes
PlanObeysIncludesExcludes ==
  (call.op # "none" /\ result.kind = "ok") =>
    \A t \in PoolTypes(result.NodePools) :
      /\ ~ contains(call.req.Excludes, t)
      /\ Len(RequestIncludes) > 0 => contains(RequestIncludes, t)

\* the nodes of a type and class in a plan
RECURSIVE NodesOfType(_, _, _)
NodesOfType(nps, t, class) ==
  IF nps = <<>> THEN 0
  ELSE (IF Head(nps).VmType.Type = t /\ Head(nps).VmClass = class
        THEN Head(nps).SumNodes ELSE 0)
       + NodesOfType(Tail(nps), t, class)

\* C6: a standard plan has no pool of an excluded type and, with includes
\* given, only pools of included types; a scale-out plan has pools of an
\* excluded type only as far as the running cluster has them, with the
\* node counts of the running cluster
PlanObeysIncludesExcludesButLayout ==
  /\ (call.op = "cluster" /\ result.kind = "ok") =>
       \A t \in PoolTypes(result.NodePools) :
         /\ ~ contains(call.req.Excludes, t)
         /\ Len(call.req.Includes) > 0 => contains(call.req.Includes, t)
  /\ (call.op = "scaleout" /\ result.kind = "ok") =>
       \A t \in PoolTypes(result.NodePools), class \in {regular, spot} :
         contains(call.req.Excludes, t) =>
           NodesOfType(result.NodePools, t, class)
             = NodesOfType(LayoutPools, t, class)

\* a scale-out plan that keeps the pool of an excluded type as it is and
\* adds nodes to another pool
ScaleOutKeepsExcludedPool ==
  /\ call.op = "scaleout" /\ result.kind = "ok"
  /\ \E t \in PoolTypes(result.NodePools) : contains(call.req.Excludes, t)
  /\ NodeCount(result.NodePools, TRUE) + NodeCount(result.NodePools, FALSE)
       > DescNodes(call.layoutDesc.nps)

\* C7 as stated: for every provider no pool of a returned plan has a burst
\* vm when allowBurst is false, and on amazon no pool has a vm of an older
\* generation unless allowOlderGen is true
PlanObeysBurstAndGeneration ==
  (call.op = "cluster" /\ result.kind = "ok") =>
    \A i \in 1..Len(result.NodePools) :
      /\ call.req.AllowBurst = "false" => ~ result.NodePools[i].VmType.Burst
      /\ (call.provider = "amazon" /\ call.req.AllowOlderGen # "true")
           => result.NodePools[i].VmType.CurrentGen

\* C7: on amazon no pool of a returned plan has a burst vm when allowBurst
\* is false, and none has a vm of an older generation unless allowOlderGen
\* is true
PlanObeysBurstAndGenerationOnAmazon ==
  (call.op = "cluster" /\ call.provider = "amazon" /\ result.kind = "ok") =>
    \A i \in 1..Len(result.NodePools) :
      /\ call.req.AllowBurst = "false" => ~ result.NodePools[i].VmType.Burst
      /\ call.req.AllowOlderGen # "true"
           => result.NodePools[i].VmType.CurrentGen

\* a plan on amazon for a request that rules out burst vms and leaves the
\* generation policy unset
AmazonPlanWithoutBurst ==
  /\ call.op = "cluster" /\ call.provider = "amazon" /\ result.kind = "ok"
  /\ call.req.AllowBurst = "false"
  /\ call.req.AllowOlderGen = "nil"
  /\ NodeCount(result.NodePools, TRUE) + NodeCount(result.NodePools, FALSE) > 0

\* both plans of the pair were produced
BothPlanned == mono.done /\ mono.plan1.panic = "" /\ mono.plan2.panic = ""

\* C8 as stated: with pct1 <= pct2 the plan for pct2 has at least as many
\* regular nodes and at most as many spot nodes as the plan for pct1
MoreOnDemandMoreRegularFewerSpot ==
  BothPlanned =>
    /\ NodeCount(mono.plan2.nps, TRUE) >= NodeCount(mono.plan1.nps, TRUE)
    /\ NodeCount(mono.plan2.nps, FALSE) <= NodeCount(mono.plan1.nps, FALSE)

\* C8: with pct1 <= pct2 the plan for pct2 has at least as many regular
\* nodes as the plan for pct1, and at most as many spot nodes when both
\* plans spread the spot nodes over the same number N of pools
MoreOnDemandMoreRegularFewerSpotSameN ==
  BothPlanned =>
    /\ NodeCount(mono.plan2.nps, TRUE) >= NodeCount(mono.plan1.nps, TRUE)
    /\ mono.N1 = mono.N2 =>
         NodeCount(mono.plan2.nps, FALSE) <= NodeCount(mono.plan1.nps, FALSE)

\* a pair of plans over the same N where the higher percentage moved nodes
\* from spot to regular
MoreOnDemandMovesNodes ==
  /\ BothPlanned
  /\ mono.pct1 < mono.pct2
  /\ mono.N1 = mono.N2 /\ mono.N1 > 0
  /\ NodeCount(mono.plan2.nps, TRUE) > NodeCount(mono.plan1.nps, TRUE)
  /\ NodeCount(mono.plan2.nps, FALSE) < NodeCount(mono.plan1.nps, FALSE)
  /\ NodeCount(mono.plan2.nps, FALSE) > 0

\* the steps of the claim: x <= 4 to x, 5..8 to 4, 9..15 to 5, 16..24 to 6,
\* 25..35 to 7, above 35 to 8
Bucket(x) ==
  IF x <= 4 THEN x ELSE IF x <= 8 THEN 4 ELSE IF x <= 15 THEN 5
  ELSE IF x <= 24 THEN 6 ELSE IF x <= 35 THEN 7 ELSE 8

SpotPoolCount(nps) == Cardinality({i \in 1..Len(nps) : nps[i].VmClass = spot})

\* max(0, ceil((minNodes + maxNodes - 2 * odNodes) / 2)) of the plan
AvgSpotNodesOfPlan ==
  LET x == div.req.MinNodes + div.req.MaxNodes
             - 2 * NodeCount(div.plan.nps, TRUE)
  IN IF x <= 0 THEN 0 ELSE (x + 1) \div 2

ExpectedN == Min2(Bucket(AvgSpotNodesOfPlan), Len(div.vms))

\* C9: a cold-start plan over S spot candidates has min(ceil(1.5 * N), S)
\* spot pools if N > 0 and min(3, S) if N = 0
SpotPoolsPerDiversification ==
  (div.done /\ div.plan.panic = "") =>
    SpotPoolCount(div.plan.nps)
      = IF ExpectedN > 0 THEN Min2((3 * ExpectedN + 1) \div 2, Len(div.vms))
        ELSE Min2(3, Len(div.vms))

\* a plan of eight spot pools out of more candidates, N being five
EightPoolsOfMore ==
  /\ div.done /\ div.plan.panic = ""
  /\ ExpectedN = 5
  /\ Len(div.vms) > 8
  /\ SpotPoolCount(div.plan.nps) = 8

\* C10: a scale-out call whose running cluster has exactly desiredCpu cpus
\* and desiredMem memory fails with "already enough resources"
ZeroDeltaAlreadySatisfied ==
  ( /\ call.op = "scaleout"
    /\ LayoutCapacity(Cpu) = call.req.SumCpu
    /\ LayoutCapacity(Memory) = call.req.SumMem ) =>
      /\ result.kind = "error"
      /\ result.err = "there's already enough resources in the cluster"

\* computeScaleoutResources of the call on hand for an anchor
ScaleoutOf(attr) ==
  computeScaleoutResources(LayoutPools, attr, call.req.SumCpu, call.req.SumMem,
                           call.req.OnDemandPct, call.arch)

InfeasibleOdRatio == "couldn't scale out cluster with the provided parameters"

\* the call on hand reaches the anchor: the loop starts with cpu, and
\* reaches memory unless the pass for cpu ended the call
AnchorReached(attr) ==
  \/ attr = Cpu
  \/ AnchorPass(BeforeAnchors(call.req), Cpu, call.provider, call.layoutDesc,
                Desired(call.req), call.arch).result.kind = ""

\* C11: a scale-out call whose scaleoutOdPct exceeds 100 at an anchor it
\* reaches fails with the error of computeScaleoutResources and returns no
\* plan
InfeasibleOdRatioFailsCall ==
  \A attr \in {Cpu, Memory} :
    ( /\ call.op = "scaleout"
      /\ AnchorReached(attr)
      /\ ScaleoutOf(attr).err = InfeasibleOdRatio ) =>
        /\ result.kind = "error"
        /\ result.err = InfeasibleOdRatio

\* what the pass for an anchor the call on hand reaches finds before it
\* calls the planner
PreparedAt(attr) ==
  AnchorPrepare(IF attr = Cpu THEN BeforeAnchors(call.req)
                ELSE AnchorPass(BeforeAnchors(call.req), Cpu, call.provider,
                                call.layoutDesc, Desired(call.req), call.arch),
                attr, call.provider, call.layoutDesc, Desired(call.req),
                call.arch)

\* the pass for the anchor is given up ("continue")
AnchorSkipped(attr) == AnchorReached(attr) /\ PreparedAt(attr).step = "continue"

\* the anchor is given up for want of on-demand or of spot candidates
NoViableVms(attr) ==
  /\ AnchorSkipped(attr)
  /\ call.layoutDesc.nil \/ ScaleoutOf(attr).err = ""

Unsatisfiable == "could not recommend cluster with the requested resources"

\* C12: a call in which one anchor has no viable vms and the other yields a
\* plan returns the plan of the other anchor; a call fails with "could not
\* recommend cluster with the requested resources" exactly when both
\* anchors are given up
NoViableVmsSkipsAnchorOnly ==
  call.op # "none" =>
    /\ \A attr \in {Cpu, Memory} : \A other \in {Cpu, Memory} \ {attr} :
         (NoViableVms(attr) /\ other \in DOMAIN AnchorPlans) =>
           /\ result.kind = "ok"
           /\ result.NodePools = AnchorPlans[other]
    /\ (result.kind = "error" /\ result.err = Unsatisfiable)
         <=> (AnchorSkipped(Cpu) /\ AnchorSkipped(Memory))

\* a standard call whose cpu anchor has no viable vms returns the plan of
\* the memory anchor, which has nodes
MemoryPlanWhenCpuHasNoVms ==
  /\ call.op = "cluster"
  /\ NoViableVms(Cpu)
  /\ Memory \in DOMAIN AnchorPlans
  /\ result.kind = "ok"
  /\ result.NodePools = AnchorPlans[Memory]
  /\ Capacity(result.NodePools, Cpu) > 0

\* C13: of the callers that miss the same key at the same time only one
\* calls the external system: no two callers hold, each from an upstream
\* call of its own, a value for the same key that is yet to be stored
SingleFlightOnMiss ==
  \A c1 \in Callers : \A c2 \in Callers \ {c1} :
    ~ ( /\ callers[c1].pc = "set"
        /\ callers[c2].pc = "set"
        /\ callers[c1].key = callers[c2].key )

\* a call of the external system made by a renewal returns an error
RenewalFails(id) ==
  \/ longPass'[id] # longPass[id] /\ longPass'[id].err
  \/ \E r \in Regions : /\ shortPass[id].regions[r] = "todo"
                        /\ shortPass'[id].regions[r] = "failed"

\* C14: an error of the external system on one key of a renewal leaves
\* the entries of the cache as they are and does not end the renewal: a
\* run of renew that is done has been at every one of its keys, and a
\* region whose prices failed leaves the other regions to be renewed
RefreshErrorSparesOtherKeys ==
  /\ [](\A id \in PassIds :
          longPass[id].state = "done" => longPass[id].next = Len(LongKeys) + 1)
  /\ [][\A id \in PassIds :
          RenewalFails(id) =>
            /\ store' = store
            /\ \A r \in Regions :
                 shortPass[id].regions[r] = shortPass'[id].regions[r]
                 \/ shortPass'[id].regions[r] = "failed"]_vars

LoopsExited == loop.long = "exited" /\ loop.short = "exited"

\* a renewal starts: a pass that was idle is running
PassStarts ==
  \E id \in PassIds :
    \/ longPass[id].state = "idle" /\ longPass'[id].state = "running"
    \/ shortPass[id].state = "idle" /\ shortPass'[id].state = "running"

\* no renewal is under way: every run of renew and of renewShortLived that
\* was started has got to its end
PassesComplete ==
  \A id \in PassIds :
    /\ longPass[id].state # "running"
    /\ shortPass[id].state = "running" => ShortPassDone(shortPass[id])

\* C16: once ctx is cancelled both ticker loops stop and exit at some time
\* and the renewals under way, those running at the cancellation too, run
\* to their end; a loop that has exited starts no renewal
CancelStopsLoops ==
  /\ cancelled ~> (LoopsExited /\ PassesComplete)
  /\ [][(loop.long = "exited" => ~ LongSelectTick)
        /\ (loop.short = "exited" => ~ ShortSelectTick)
        /\ (LoopsExited => ~ PassStarts)]_vars

\* both loops have exited after the cancellation, the renewals are at
\* their end, and the ticks that wait in the channels are not served
LoopsExitedWithTicksWaiting ==
  /\ cancelled
  /\ LoopsExited
  /\ PassesComplete
  /\ tick.long /\ tick.short

\* what the call returns when it is served with no other call under way
ServedAlone(c) ==
  { RecommendCluster(c.provider, c.req, c.layoutDesc, order, c.arch) :
      order \in MapOrders }

SelEmpty == Len(sel.attrValues) = 0

SelInverted == sel.minN * sel.maxD > sel.maxN * sel.minD

SelDomain == SeqRange(sel.attrValues)

\* min <= v <= max
InWindow(v) == v * sel.minD >= sel.minN /\ v * sel.maxD <= sel.maxN

SelSmallest == CHOOSE v \in SelDomain : \A w \in SelDomain : v <= w

SelLargest == CHOOSE v \in SelDomain : \A w \in SelDomain : v >= w

\* each value of ds as many times as it occurs in values
RECURSIVE Occurrences(_, _)
Occurrences(ds, values) ==
  IF ds = <<>> THEN <<>>
  ELSE [i \in 1..CountEq(values, Head(ds)) |-> Head(ds)]
       \o Occurrences(Tail(ds), values)

\* the reference selection, which reads the domain as a collection of
\* values and not as a list
SelReference ==
  IF SelEmpty
  THEN [err |-> "no attribute values provided", values |-> <<>>]
  ELSE IF SelInverted
  THEN [err |-> "min value cannot be larger than the max value", values |-> <<>>]
  ELSE IF sel.maxN < SelSmallest * sel.maxD
  THEN [err |-> "", values |-> <<SelSmallest>>]
  ELSE IF sel.minN > SelLargest * sel.minD
  THEN [err |-> "", values |-> <<SelLargest>>]
  ELSE [err |-> "",
        values |-> Occurrences(
          SortedSeqOfSet({v \in SelDomain : InWindow(v)}), sel.attrValues)]

\* C17: for every value domain, in whatever order it is given, and every
\* window, findValuesBetween returns what the reference returns: the error
\* of an empty domain, else the error of min > max, else the smallest value
\* alone when max is below it, else the largest value alone when min is
\* above it, else the values inside the window in ascending order.
SelectionEqualsReference ==
  sel.done => sel.out = SelReference

\* a domain that is not given in ascending order, of which several values
\* are selected
UnorderedDomainSelected ==
  /\ sel.done
  /\ \E i \in 1..Len(sel.attrValues) - 1 :
       sel.attrValues[i] > sel.attrValues[i + 1]
  /\ Len(sel.out.values) >= 2
  /\ sel.out.values = SelReference.values

\* a domain with values, a window with min <= max, and no value inside it
NoValueInWindow ==
  /\ sel.done
  /\ ~SelEmpty
  /\ ~SelInverted
  /\ \A v \in SelDomain : ~InWindow(v)

\* the values of the domain next to the window: the largest one below min
\* and the smallest one above max
SelNearest ==
  {v \in SelDomain :
     \/ /\ v * sel.minD < sel.minN
        /\ \A w \in SelDomain : w * sel.minD < sel.minN => w <= v
     \/ /\ v * sel.maxD > sel.maxN
        /\ \A w \in SelDomain : w * sel.maxD > sel.maxN => w >= v}

\* the window lies strictly between two values of the domain
WindowBetweenValues ==
  /\ NoValueInWindow
  /\ \E v \in SelDomain : v * sel.minD < sel.minN
  /\ \E v \in SelDomain : v * sel.maxD > sel.maxN

\* C18: when the domain has values, min <= max and no value lies in the
\* window, findValuesBetween returns one value, a value of the domain next
\* to the window, also when the window lies between two values.
NearestBoundaryReturned ==
  NoValueInWindow =>
    /\ sel.out.err = ""
    /\ Len(sel.out.values) = 1
    /\ sel.out.values[1] \in SelNearest

\* the same for the windows below and above the whole domain only
NearestBoundaryOutsideDomain ==
  (NoValueInWindow /\ ~WindowBetweenValues) =>
    /\ sel.out.err = ""
    /\ Len(sel.out.values) = 1
    /\ sel.out.values[1] \in SelNearest

\* between two values nothing is selected
NothingSelectedBetweenValues ==
  WindowBetweenValues => sel.out = [err |-> "", values |-> <<>>]

\* the plans of the pair with the on-demand percentage each was made for
PlansWithPct ==
  {p \in {[pct |-> mono.pct1, plan |-> mono.plan1],
          [pct |-> mono.pct2, plan |-> mono.plan2]} :
     mono.done /\ p.plan.panic = ""}

HasPoolOfClass(nps, class) == \E i \in 1..Len(nps) : nps[i].VmClass = class

PricesInRequestZones ==
  {i \in 1..Len(priced.SpotPrice) :
     \E j \in 1..Len(priced.zones) :
       priced.zones[j] = priced.SpotPrice[i].Zone}

RECURSIVE SumOfPrices(_)
SumOfPrices(I) ==
  IF I = {} THEN 0
  ELSE LET i == CHOOSE x \in I : TRUE
       IN priced.SpotPrice[i].Price + SumOfPrices(I \ {i})

\* C20: the AvgPrice of a vm is the mean of the product's spot prices in
\* the zones of the request (the sum of these prices divided by their
\* number), and 0 when the product has no spot price in a zone of the
\* request
AvgPriceIsMeanOverRequestZones ==
  priced.done =>
    IF PricesInRequestZones = {} THEN priced.AvgPrice = 0
    ELSE priced.AvgPrice * Cardinality(PricesInRequestZones)
           = SumOfPrices(PricesInRequestZones)

\* what avg computes: the sum of the prices in the zones of the request
\* divided by the number of all the spot prices of the product
AvgPriceDividesByAllPrices ==
  priced.done =>
    priced.AvgPrice * Len(priced.SpotPrice) = SumOfPrices(PricesInRequestZones)

\* the mean is right when every priced zone of the product is requested
AvgPriceIsMeanWhenAllZonesRequested ==
  (priced.done /\ Cardinality(PricesInRequestZones) = Len(priced.SpotPrice)) =>
    /\ Len(priced.SpotPrice) = 0 => priced.AvgPrice = 0
    /\ priced.AvgPrice * Len(priced.SpotPrice)
         = SumOfPrices(PricesInRequestZones)

\* scenario S7 at the return of the loop: anchor cpu, N = 2, two spot pools
\* of vms with 4 and with 8 cpus and a target of 16 cpus (the pools start
\* empty and sumSpotValue is 16)
ScenarioS7AtReturn ==
  /\ fillPc = "returned"
  /\ fill.attr = Cpu /\ fill.N = 2 /\ Len(fill.nps) = 2
  /\ fill.nps[1].VmType = PoolVm(4) /\ fill.nps[2].VmType = PoolVm(8)
  /\ fill.desiredSpotValue = 16

\* C21 as stated: scenario S7 ends with 4 nodes in the pool of the 4-cpu vm
\* and 2 nodes in the pool of the 8-cpu vm
ScenarioS7EndsWithFourAndTwo ==
  ScenarioS7AtReturn =>
    fill.nps[1].SumNodes = 4 /\ fill.nps[2].SumNodes = 2

\* C21: scenario S7 ends with 2 nodes in the pool of the 4-cpu vm and 1
\* node in the pool of the 8-cpu vm, 16 cpus in all
ScenarioS7EndsWithTwoAndOne ==
  ScenarioS7AtReturn =>
    /\ fill.nps[1].SumNodes = 2 /\ fill.nps[2].SumNodes = 1
    /\ fill.sumValueInPools = 16

\* the loop has returned from a run over a 4-cpu and an 8-cpu pool with
\* N = 2 and a target of 16 cpus
ScenarioS7Returned ==
  /\ ScenarioS7AtReturn
  /\ fill.idx = 3 /\ fill.minIndex = 0
  /\ fill.nps[1].SumNodes * 4 + fill.nps[2].SumNodes * 8 = 16

\* the sum of f over the set I of its arguments
RECURSIVE SumFn(_, _)
SumFn(f, I) ==
  IF I = {} THEN 0
  ELSE LET i == CHOOSE x \in I : TRUE
       IN f[i] + SumFn(f, I \ {i})

\* the pools of the response that are of the class
PoolsOfClass(class) ==
  {i \in 1..Len(result.NodePools) : result.NodePools[i].VmClass = class}

\* C22: in every response the pools are regular or spot, the regular sums
\* of the accuracy are the nodes and nodes * onDemandPrice of the regular
\* pools, the spot sums are the nodes and nodes * avgPrice of the spot
\* pools, recNodes is the sum of the two node counts and recTotalPrice the
\* sum of the two prices
AccuracyPartitionsPools ==
  result.kind = "ok" =>
    LET nps == result.NodePools
        acc == result.Accuracy
        nodes == [i \in 1..Len(nps) |-> nps[i].SumNodes]
        odPrice == [i \in 1..Len(nps) |->
                      nps[i].SumNodes * nps[i].VmType.OnDemandPrice]
        avgPrice == [i \in 1..Len(nps) |->
                       nps[i].SumNodes * nps[i].VmType.AvgPrice]
    IN /\ PoolsOfClass(regular) \cup PoolsOfClass(spot) = 1..Len(nps)
       /\ acc.RecRegularNodes = SumFn(nodes, PoolsOfClass(regular))
       /\ acc.RecRegularPrice = SumFn(odPrice, PoolsOfClass(regular))
       /\ acc.RecSpotNodes = SumFn(nodes, PoolsOfClass(spot))
       /\ acc.RecSpotPrice = SumFn(avgPrice, PoolsOfClass(spot))
       /\ acc.RecNodes = acc.RecRegularNodes + acc.RecSpotNodes
       /\ acc.RecTotalPrice = acc.RecRegularPrice + acc.RecSpotPrice

\* a response with regular and spot nodes, both at a price
ResponseWithBothClasses ==
  /\ result.kind = "ok"
  /\ result.Accuracy.RecRegularNodes > 0
  /\ result.Accuracy.RecSpotNodes > 0
  /\ result.Accuracy.RecRegularPrice > 0
  /\ result.Accuracy.RecSpotPrice > 0
  /\ result.Accuracy.RecSpotPrice # result.Accuracy.RecTotalPrice

\* the entries of the kind that are in the cache
ItemsOfKind(kind) == {k \in ExpiryKeys : k.kind = kind /\ store[k] # NoItem}

\* C23: the entries of attribute values and of vms were set with the
\* renewal interval, the entries of prices with 2 minutes, and the entries
\* of zones and regions are kept for the default expiry of the cache
EntriesSetWithTheirExpiry ==
  /\ \A k \in ItemsOfKind("attrValues") \cup ItemsOfKind("vms") :
       store[k].d = renewalInterval
  /\ \A k \in ItemsOfKind("prices") : store[k].d = ShortLivedTtl
  /\ \A k \in ItemsOfKind("zones") \cup ItemsOfKind("regions") :
       store[k].Expiration = defaultExpiration

\* the same without the entries of prices
EntriesButPricesSetWithTheirExpiry ==
  /\ \A k \in ItemsOfKind("attrValues") \cup ItemsOfKind("vms") :
       store[k].d = renewalInterval
  /\ \A k \in ItemsOfKind("zones") \cup ItemsOfKind("regions") :
       store[k].Expiration = defaultExpiration

\* the price per anchor value of candidate i is at most that of candidate j
OdNoDearer(i, j) ==
  div.vms[i].OnDemandPrice * getAttrValue(div.vms[j], div.attr)
    <= div.vms[j].OnDemandPrice * getAttrValue(div.vms[i], div.attr)

\* the first candidate, in the order given, that no candidate undercuts
FirstCheapestCandidate ==
  CHOOSE i \in 1..Len(div.vms) :
    /\ \A j \in 1..Len(div.vms) : OdNoDearer(i, j)
    /\ \A j \in 1..(i - 1) : ~OdNoDearer(j, i)

\* ceil((sumA * onDemandPct / 100) / A_value) for a vm
OdNodesFor(vm) ==
  CHOOSE n \in 0..(sum(div.req, div.attr) + 1) :
    /\ n * getAttrValue(vm, div.attr) * 100
         >= sum(div.req, div.attr) * div.req.OnDemandPct
    /\ (n - 1) * getAttrValue(vm, div.attr) * 100
         < sum(div.req, div.attr) * div.req.OnDemandPct

RegularPoolsOfPlan ==
  {i \in 1..Len(div.plan.nps) : div.plan.nps[i].VmClass = regular}

\* C24: a cold-start plan has one regular pool, of the first candidate with
\* the lowest onDemandPrice per anchor value, with
\* ceil((sumA * onDemandPct / 100) / A_value) nodes
RegularPoolOfFirstCheapest ==
  (div.done /\ div.plan.panic = "") =>
    /\ Cardinality(RegularPoolsOfPlan) = 1
    /\ \A i \in RegularPoolsOfPlan :
         /\ div.plan.nps[i].VmType = div.vms[FirstCheapestCandidate]
         /\ div.plan.nps[i].SumNodes = OdNodesFor(div.plan.nps[i].VmType)

\* a plan whose regular pool has nodes of the second candidate, which costs
\* less than the first and the same as the third
SecondOfThreeSelected ==
  /\ div.done /\ div.plan.panic = ""
  /\ Len(div.vms) = 3
  /\ ~OdNoDearer(1, 2)
  /\ OdNoDearer(2, 3) /\ OdNoDearer(3, 2)
  /\ \E i \in RegularPoolsOfPlan :
       /\ div.plan.nps[i].VmType = div.vms[2]
       /\ div.plan.nps[i].SumNodes > 1

\* the anchor's desired total, current total and current on-demand total
ScaledDesired ==
  IF scaled.attr = Cpu THEN scaled.desiredCpu ELSE scaled.desiredMem

RECURSIVE PoolTotal(_, _, _)
PoolTotal(nps, attr, classes) ==
  IF nps = <<>> THEN 0
  ELSE (IF Head(nps).VmClass \in classes
        THEN Head(nps).SumNodes * getAttrValue(Head(nps).VmType, attr)
        ELSE 0)
       + PoolTotal(Tail(nps), attr, classes)

ScaledCurrent == PoolTotal(scaled.layout, scaled.attr, {regular, spot, ""})

ScaledCurrentOd == PoolTotal(scaled.layout, scaled.attr, {regular})

\* scaleoutA = desiredA - currentA
ScaledDelta == ScaledDesired - ScaledCurrent

\* 100 * scaleoutOdA = desiredA * desiredOdPct - 100 * currentOdA
ScaledOdNum == ScaledDesired * scaled.desiredOdPct - 100 * ScaledCurrentOd

\* computeScaleoutResources has returned without error for an anchor with
\* a delta of at least 0
ScaleoutSucceeded ==
  scaled.done /\ scaled.out.err = "" /\ ScaledDelta >= 0

\* C25: when computeScaleoutResources succeeds for an anchor with a delta
\* of at least 0, the percentage it returns is in 0..100 and is
\* floor(scaleoutOdA / scaleoutA * 100), 0 if that is negative; with a
\* delta of 0 the quotient is not below 100 only if scaleoutOdA is at most 0
ScaleoutPctIsClampedFloor ==
  ScaleoutSucceeded =>
    /\ scaled.out.OnDemandPct \in 0..100
    /\ ScaledDelta > 0 =>
         \/ ScaledOdNum < 0 /\ scaled.out.OnDemandPct = 0
         \/ /\ ScaledOdNum >= 0
            /\ scaled.out.OnDemandPct * ScaledDelta <= ScaledOdNum
            /\ (scaled.out.OnDemandPct + 1) * ScaledDelta > ScaledOdNum
    /\ ScaledDelta = 0 => ScaledOdNum <= 0 /\ scaled.out.OnDemandPct = 0

\* the percentage returned is in 0..100
ScaleoutPctInRange ==
  ScaleoutSucceeded => scaled.out.OnDemandPct \in 0..100

\* the percentage is the floor, or one less than a whole quotient, when the
\* delta is positive
ScaleoutPctWithinOneOfFloor ==
  (ScaleoutSucceeded /\ ScaledDelta > 0 /\ ScaledOdNum >= 0) =>
    /\ scaled.out.OnDemandPct * ScaledDelta <= ScaledOdNum
    /\ (scaled.out.OnDemandPct + 2) * ScaledDelta > ScaledOdNum

\* a delta of 0 with on-demand resources to add succeeds with 0 percent
ZeroDeltaSucceedsWithOdToAdd ==
  ~(ScaleoutSucceeded /\ ScaledDelta = 0 /\ ScaledOdNum > 0)

\* the call at hand passes no more pools to fill than the list holds
FillNWithinPools == fill.N <= Len(fill.nps)

\* the call at hand fills at least one pool while spot value remains
FillNPositiveWhileValueRemains ==
  (fill.panic = "" /\ fill.sumValueInPools < fill.desiredSpotValue) => fill.N >= 1

\* C26: every call of fillSpotNodePools that RecommendNodePools makes for
\* an anchor that passed the candidate guard is well-formed, N is at most
\* the number of spot pools passed in and at least 1 while spot value
\* remains, and so the call never fails at run time
FillCallsWellFormed ==
  /\ FillNWithinPools
  /\ FillNPositiveWhileValueRemains
  /\ fill.panic = ""

\* the fill loop starts with every spot pool at 0 nodes
ColdStartOfFill ==
  /\ fillPc = "loop"
  /\ fill.sumValueInPools = 0
  /\ \A i \in 1..Len(fill.nps) : fill.nps[i].SumNodes = 0

\* none of the first N pools holds more of the anchor attribute than the
\* pool with index minIndex
FillBalanced ==
  \A i \in 0..(fill.N - 1) :
    (i # fill.minIndex /\ fill.N <= Len(fill.nps)) =>
      getSum(fill.nps[i + 1], fill.attr)
        <= getSum(fill.nps[fill.minIndex + 1], fill.attr)

\* C27: in a run of the fill loop that starts with all spot pools at 0
\* nodes, in every state up to and including the return, each of the first
\* N pools other than the pool with index minIndex holds a total
\* sumNodes * A_value that does not exceed the total of that pool
ColdStartStaysBalanced == ColdStartOfFill => []FillBalanced

\* a run that started with nothing in the first N pools (the target is the
\* smallest spot value asked for) has returned with nodes in a pool other
\* than the one with index minIndex
ColdStartFilledSecondPool ==
  /\ fillPc = "returned"
  /\ fill.desiredSpotValue = 8
  /\ fill.N >= 2
  /\ \E i \in 0..(fill.N - 1) :
       i # fill.minIndex /\ fill.nps[i + 1].SumNodes > 0
  /\ \A i \in (fill.N + 1)..Len(fill.nps) : fill.nps[i].SumNodes = 0

\* what a step of the fill loop leaves alone: the number of pools, the vm
\* type and class of every pool and the nodes of the pools from index N on;
\* the nodes of the first N pools do not decrease
FillStepFrame ==
  /\ Len(fill'.nps) = Len(fill.nps)
  /\ fill'.N = fill.N
  /\ \A i \in 1..Len(fill.nps) :
       /\ fill'.nps[i].VmType = fill.nps[i].VmType
       /\ fill'.nps[i].VmClass = fill.nps[i].VmClass
       /\ i <= fill.N => fill'.nps[i].SumNodes >= fill.nps[i].SumNodes
       /\ i > fill.N => fill'.nps[i].SumNodes = fill.nps[i].SumNodes

\* C28: the fill loop changes only the sumNodes of the first N spot pools
\* and never decreases them; the vm type and class of every pool and the
\* sumNodes of the pools at index >= N are left unchanged
FillChangesOnlyFirstN == [][FillStepFrame]_vars

\* the loop has added nodes to the first N pools of a list with a tail, a
\* pool of which holds a node since the start
FilledBeforeTail ==
  /\ fillPc = "returned"
  /\ fill.N < Len(fill.nps)
  /\ fill.sumValueInPools >= 16
  /\ \E i \in 1..fill.N : fill.nps[i].SumNodes >= 2
  /\ fill.nps[Len(fill.nps)].SumNodes = 1

\* the instance type is one of the catalogue
KnownType(t) == \E k \in 1..Len(Products) : Products[k].Type = t

\* every pool of the plan has the instance type and the class of a pool of
\* the layout
PlanPoolsAreLayoutPools ==
  (call.op = "scaleout" /\ result.kind = "ok") =>
    \A i \in 1..Len(result.NodePools) :
      \E j \in 1..Len(call.layoutDesc.nps) :
        /\ result.NodePools[i].VmType.Type
             = call.layoutDesc.nps[j].InstanceType
        /\ result.NodePools[i].VmClass = getVmClass(call.layoutDesc.nps[j])

\* every pool of the layout whose type the catalogue knows is in the plan
\* with at least the nodes it has
LayoutPoolsAreKept ==
  (call.op = "scaleout" /\ result.kind = "ok") =>
    \A j \in 1..Len(call.layoutDesc.nps) :
      KnownType(call.layoutDesc.nps[j].InstanceType) =>
        \E i \in 1..Len(result.NodePools) :
          /\ result.NodePools[i].VmType.Type
               = call.layoutDesc.nps[j].InstanceType
          /\ result.NodePools[i].VmClass = getVmClass(call.layoutDesc.nps[j])
          /\ result.NodePools[i].SumNodes >= call.layoutDesc.nps[j].SumNodes

\* C29: a scale-out plan only augments the layout: every returned pool has
\* the instance type and class of some pool of the layout, and every pool
\* of the layout whose type the catalogue knows is in the plan with at
\* least its nodes
ScaleOutPlanAugmentsLayout == PlanPoolsAreLayoutPools /\ LayoutPoolsAreKept

\* a scale-out call has returned a plan for a layout of two pools of
\* different types, with more nodes in a pool than the layout has
ScaleOutAddedNodes ==
  /\ call.op = "scaleout" /\ result.kind = "ok"
  /\ Len(call.layoutDesc.nps) = 2
  /\ call.layoutDesc.nps[1].InstanceType # call.layoutDesc.nps[2].InstanceType
  /\ Len(result.NodePools) = 2
  /\ \E i \in 1..2 : \E j \in 1..2 :
       /\ result.NodePools[i].VmType.Type
            = call.layoutDesc.nps[j].InstanceType
       /\ result.NodePools[i].SumNodes > call.layoutDesc.nps[j].SumNodes

\* C30: GetAttrValues returns a sequence of the length of the stored
\* attribute values that holds their numeric values in the same order and
\* nothing else
AttrValuesReturnedAsStored ==
  attrCall.done =>
    /\ Len(attrCall.out) = Len(attrCall.stored)
    /\ \A i \in 1..Len(attrCall.stored) :
         i <= Len(attrCall.out) => attrCall.out[i] = attrCall.stored[i].Value

\* what is returned ends with the numeric values of the stored ones, in
\* their order, after as many zeros
AttrValuesReturnedAfterZeros ==
  attrCall.done =>
    /\ Len(attrCall.out) = 2 * Len(attrCall.stored)
    /\ \A i \in 1..Len(attrCall.stored) :
         /\ attrCall.out[i] = 0
         /\ attrCall.out[Len(attrCall.stored) + i] = attrCall.stored[i].Value

====
